---- MODULE Spec2Model ----
(***************************************************************************)
(* imagedb: chunking, integrity and reassembly engine with its upload       *)
(* session map and quota ledger (src/src/services/upload.ts,                *)
(* src/src/services/chunking.ts) on top of the Arkiv entity store           *)
(* (src/src/storage/arkiv-storage.ts and its rewrite src/unnamed/part_000). *)
(*                                                                         *)
(* Buffers are sequences of bytes over a two-letter alphabet.  The sizes    *)
(* of CONFIG are scaled down so that one-chunk, two-chunk and over-sized    *)
(* files as well as both quota limits are reached by short runs.            *)
(***************************************************************************)
EXTENDS Integers, Sequences, FiniteSets, TLC

(* ------------------------------------------------------------------ *)
(* CONFIG (types.ts, printed at the end of src/README.md), scaled.     *)
(* ------------------------------------------------------------------ *)
MAX_FILE_SIZE == 4

CHUNK_SIZE == 2

FREE_TIER_MAX_BYTES == 5

FREE_TIER_MAX_UPLOADS_PER_DAY == 2

\* blocks per day (43200 in the source, 5760 in the older ArkivStorage)
BLOCKS_PER_DAY == 2

\* seconds per block
BLOCK_TIME_SECONDS == 2

(* ------------------------------------------------------------------ *)
(* Bounds of the model.                                                *)
(* ------------------------------------------------------------------ *)
\* longest buffer handed to the codec on its own
MaxLen == 5

\* largest chunk size tried for the codec on its own
MaxChunkSize == 3

\* number of calls (initiateUpload or getMedia) issued in one behaviour
MaxCalls == 2

\* number of store-side faults (expiry, loss, corruption, duplication)
MaxFaults == 1

\* number of storeChunk calls made on a store on its own
MaxStoreCalls == 3

\* length of a chunk list handed to reassembleFile on its own
MaxChunks == 3

\* the clock of an upload prepared on its own runs from 0 to MaxClock
MaxClock == 2

\* number of times one buffer is prepared
MaxRuns == 2

\* the chain's block number runs from currentBlock to MaxBlock
MaxBlock == 2

\* target expiration blocks run from -MaxTarget to MaxTarget
MaxTarget == 4

\* the chain reports a block duration from 1 to MaxDuration seconds
MaxDuration == 3

Byte == {0, 1}

Min(a, b) == IF a < b THEN a ELSE b

VARIABLES
  chunkSize,       \* CONFIG.CHUNK_SIZE as read by the codec
  storageImpl,     \* which ArkivStorage the service was built with
  uploadSessions,  \* UploadService.uploadSessions : key -> session
  userUsage,       \* QuotaService.userUsage : user -> QuotaInfo (lazily filled)
  chunkEntities,   \* store: entities of type image_chunk
  metaEntities,    \* store: entities of type image_metadata
  nextId,          \* source of fresh media ids (crypto.randomUUID)
  req,             \* in-flight requests: position and locals of each call
  calls,           \* number of calls issued so far
  faults,          \* number of store-side faults so far
  uploaded,        \* history: media_id -> user, bytes and key of the upload that made it
  chunkWritten,    \* history: <<media_id, index>> of every chunk write acknowledged
  chunkFailed,     \* history: media ids one of whose chunk writes failed
  metaWritten,     \* history: media ids whose metadata write was acknowledged
  cpc, cbuf, cchunks, cmeta, cout,  \* the codec exercised on its own
  qpc, quser, qsize, qres, qusage,  \* checkQuota exercised on its own
  qres2, qusage2,  \* the same check made once more, and the ledger it found
  mchunks,         \* ArkivMemoryStorage.chunks : key -> ChunkEntity
  scalls, scall, sres, sprevC, sprevM,  \* storeChunk exercised on its own
  http,            \* the route answered last and its response
  served,          \* history: the POST /media requests answered, in order
  serverUsage,     \* userUsage of the QuotaService made in server.ts
  ppc, pbuf, pbtl, pnow,  \* an upload prepared on its own: file, btlDays, clock
  prun,            \* the records each run of lines 37-59 made
  pwritten,        \* the records handed to the store, in order
  rblock,          \* the block number getCurrentBlock() returns
  rchunks,         \* ArkivMemoryStorage.chunks of a store read on its own
  rentities,       \* Arkiv chunk entities of an ArkivRpcStorage : id -> entity
  rmeta,           \* stored metadata : media_id -> MediaMetadata
  rcalls,          \* number of store calls made so far
  rhist,           \* history: media_id -> the upload that made it, and whether it was seen expired
  rread,           \* the getAllChunks call: position, locals and result
  blockTimingCache,  \* ArkivStorage.blockTimingCache (part_000), or none yet
  ttl              \* the getExpiresInSeconds call: position, locals and result

vars == <<chunkSize, storageImpl, uploadSessions, userUsage, chunkEntities,
          metaEntities, nextId, req, calls, faults, uploaded, chunkWritten,
          chunkFailed, metaWritten, cpc, cbuf, cchunks, cmeta, cout,
          qpc, quser, qsize, qres, qusage, qres2, qusage2,
          mchunks, scalls, scall, sres, sprevC, sprevM, http, served, serverUsage,
          ppc, pbuf, pbtl, pnow, prun, pwritten,
          rblock, rchunks, rentities, rmeta, rcalls, rhist, rread,
          blockTimingCache, ttl>>

sysVars == <<storageImpl, uploadSessions, userUsage, chunkEntities,
             metaEntities, nextId, req, calls, faults, uploaded, chunkWritten,
             chunkFailed, metaWritten>>

codecVars == <<cpc, cbuf, cchunks, cmeta, cout>>

quotaVars == <<qpc, quser, qsize, qres, qusage, qres2, qusage2>>

storeVars == <<mchunks, scalls, scall, sres, sprevC, sprevM>>

routeVars == <<http, served, serverUsage>>

prepVars == <<ppc, pbuf, pbtl, pnow, prun, pwritten>>

readVars == <<rblock, rchunks, rentities, rmeta, rcalls, rhist, rread>>

ttlVars == <<blockTimingCache, ttl>>

(* ------------------------------------------------------------------ *)
(* ChunkingService (src/src/services/chunking.ts)                      *)
(* ------------------------------------------------------------------ *)

\* SHA-256 as an ideal hash: the digest determines the bytes hashed.
calculateChecksum(data) == [alg |-> "sha256", of |-> data]

\* Buffer.subarray(start, end): 0-based, end exclusive, clamped to the length.
subarray(buf, start, end) == SubSeq(buf, start + 1, Min(end, Len(buf)))

\* a window that forgets the last byte of every full chunk
subarray_short(buf, start, end) == SubSeq(buf, start + 1, Min(end - 1, Len(buf)))

\* One ChunkEntity (id and created_at are read by nothing and left out).
ChunkEntity(media_id, chunk_index, chunkData) ==
  [media_id    |-> media_id,
   chunk_index |-> chunk_index,
   data        |-> chunkData,
   checksum    |-> calculateChecksum(chunkData)]

RECURSIVE chunkLoop(_, _, _, _)
chunkLoop(fileBuffer, media_id, i, chunks) ==
  IF i < Len(fileBuffer)
  THEN chunkLoop(fileBuffer, media_id, i + chunkSize,
                 Append(chunks,
                        ChunkEntity(media_id, i \div chunkSize,
                                    subarray(fileBuffer, i, i + chunkSize))))
  ELSE chunks

RECURSIVE chunkLoop_short(_, _, _, _)
chunkLoop_short(fileBuffer, media_id, i, chunks) ==
  IF i < Len(fileBuffer)
  THEN chunkLoop_short(fileBuffer, media_id, i + chunkSize,
                 Append(chunks,
                        ChunkEntity(media_id, i \div chunkSize,
                                    subarray_short(fileBuffer, i, i + chunkSize))))
  ELSE chunks

chunkFile_short(fileBuffer, media_id) == chunkLoop_short(fileBuffer, media_id, 0, <<>>)

\* every chunk is given index 0
RECURSIVE chunkLoop_zero(_, _, _, _)
chunkLoop_zero(fileBuffer, media_id, i, chunks) ==
  IF i < Len(fileBuffer)
  THEN chunkLoop_zero(fileBuffer, media_id, i + chunkSize,
                 Append(chunks,
                        ChunkEntity(media_id, 0,
                                    subarray(fileBuffer, i, i + chunkSize))))
  ELSE chunks

chunkFile_zero(fileBuffer, media_id) == chunkLoop_zero(fileBuffer, media_id, 0, <<>>)

chunkFile(fileBuffer, media_id) == chunkLoop(fileBuffer, media_id, 0, <<>>)

\* Math.ceil(fileBuffer.length / CONFIG.CHUNK_SIZE)
CeilDiv(n, d) == (n + d - 1) \div d

createMetadata(media_id, content_type, fileBuffer) ==
  [media_id     |-> media_id,
   content_type |-> content_type,
   file_size    |-> Len(fileBuffer),
   chunk_count  |-> CeilDiv(Len(fileBuffer), chunkSize),
   checksum     |-> calculateChecksum(fileBuffer)]

\* Array.prototype.sort with (a, b) => a.chunk_index - b.chunk_index: a
\* stable sort, written as insertion from the left.
RECURSIVE insertByIndex(_, _)
insertByIndex(sorted, c) ==
  IF sorted = <<>> THEN <<c>>
  ELSE IF sorted[Len(sorted)].chunk_index <= c.chunk_index
       THEN Append(sorted, c)
       ELSE Append(insertByIndex(SubSeq(sorted, 1, Len(sorted) - 1), c),
                   sorted[Len(sorted)])

\* no sort: the list is taken in the order given
sortByIndex_none(chunks) == chunks

RECURSIVE sortByIndex(_)
sortByIndex(chunks) ==
  IF chunks = <<>> THEN <<>>
  ELSE insertByIndex(sortByIndex(SubSeq(chunks, 1, Len(chunks) - 1)),
                     chunks[Len(chunks)])

\* Buffer.concat
RECURSIVE concat(_)
concat(buffers) ==
  IF buffers = <<>> THEN <<>> ELSE buffers[1] \o concat(Tail(buffers))

reassembleFile(chunks) ==
  LET s == sortByIndex(chunks)
  IN  concat([i \in 1..Len(s) |-> s[i].data])

\* compares the lengths of what was hashed instead of the digests
validateFileIntegrity_length(originalChecksum, reassembledBuffer) ==
  Len(originalChecksum.of) = Len(reassembledBuffer)

\* accepts every buffer
validateFileIntegrity_always(originalChecksum, reassembledBuffer) == TRUE

validateFileIntegrity(originalChecksum, reassembledBuffer) ==
  originalChecksum = calculateChecksum(reassembledBuffer)


(* ------------------------------------------------------------------ *)
(* Inputs                                                              *)
(* ------------------------------------------------------------------ *)
Keys == {"k1", "k2"}

Users == {"u1", "u2"}

Reqs == {"r1", "r2"}

\* the files a client sends: two chunks, one chunk, a refused type, too large
AllFiles ==
  { [buf |-> <<0, 1, 1>>,       ctype |-> "image/png"],
    [buf |-> <<1>>,             ctype |-> "image/jpeg"],
    [buf |-> <<0>>,             ctype |-> "image/gif"],
    [buf |-> <<1, 1, 0, 0, 1>>, ctype |-> "image/png"] }

\* the files sent by clients that run side by side
RacingFiles ==
  { [buf |-> <<0, 1, 1>>,       ctype |-> "image/png"],
    [buf |-> <<1>>,             ctype |-> "image/jpeg"] }

NoFile == [buf |-> <<>>, ctype |-> ""]

(* ------------------------------------------------------------------ *)
(* Maps (JavaScript Map): functions on the set of keys present         *)
(* ------------------------------------------------------------------ *)
EmptyMap == [k \in {} |-> 0]

MapSet(m, k, v) == [x \in (DOMAIN m) \cup {k} |-> IF x = k THEN v ELSE m[x]]

(* ------------------------------------------------------------------ *)
(* Results                                                             *)
(* ------------------------------------------------------------------ *)
NoMeta == [media_id |-> 0, content_type |-> "", file_size |-> 0,
           chunk_count |-> 0, checksum |-> calculateChecksum(<<>>)]

NoResult == [returned |-> FALSE, success |-> FALSE, media_id |-> 0, error |-> "",
             has_buffer |-> FALSE, buffer |-> <<>>, metadata |-> NoMeta]

Failure(error) == [NoResult EXCEPT !.returned = TRUE, !.error = error]

UploadSuccess(media_id) ==
  [NoResult EXCEPT !.returned = TRUE, !.success = TRUE, !.media_id = media_id]

MediaSuccess(buffer, metadata) ==
  [NoResult EXCEPT !.returned = TRUE, !.success = TRUE, !.has_buffer = TRUE,
                   !.buffer = buffer, !.metadata = metadata]

ErrTooLarge == "File too large"

ErrType == "Only JPEG and PNG files are supported"

ErrQuotaBytes == "Quota exceeded"

ErrQuotaCount == "Daily upload limit exceeded"

ErrUpload == "Upload failed"

ErrNotFound == "Media not found or expired"

ErrIncomplete == "Media chunks not found or incomplete"

ErrIntegrity == "File integrity check failed"

ErrRetrieval == "Retrieval failed"

(* ------------------------------------------------------------------ *)
(* QuotaService (second half of src/src/services/upload.ts)            *)
(* ------------------------------------------------------------------ *)
FreshQuota == [used_bytes |-> 0, max_bytes |-> FREE_TIER_MAX_BYTES,
               uploads_today |-> 0,
               max_uploads_per_day |-> FREE_TIER_MAX_UPLOADS_PER_DAY]

\* a getUserQuota that starts every user it is asked about from zero
withUser_reset(usage, userId) == MapSet(usage, userId, FreshQuota)

\* the Map after getUserQuota(userId): an unseen user gets the zeroed record
withUser(usage, userId) ==
  IF userId \in DOMAIN usage THEN usage ELSE MapSet(usage, userId, FreshQuota)

getUserQuota(usage, userId) == withUser(usage, userId)[userId]

\* a check that admits everything
checkQuota_admitAll(usage, userId, fileSize) == [allowed |-> TRUE, reason |-> ""]

\* the bytes already used are tested, not the bytes after the upload
checkQuota_usedOnly(usage, userId, fileSize) ==
  LET quota == getUserQuota(usage, userId)
  IN  IF quota.used_bytes > quota.max_bytes
      THEN [allowed |-> FALSE, reason |-> ErrQuotaBytes]
      ELSE IF quota.uploads_today >= quota.max_uploads_per_day
           THEN [allowed |-> FALSE, reason |-> ErrQuotaCount]
           ELSE [allowed |-> TRUE, reason |-> ""]

\* the count is tested before the bytes
checkQuota_countFirst(usage, userId, fileSize) ==
  LET quota == getUserQuota(usage, userId)
  IN  IF quota.uploads_today >= quota.max_uploads_per_day
      THEN [allowed |-> FALSE, reason |-> ErrQuotaCount]
      ELSE IF quota.used_bytes + fileSize > quota.max_bytes
           THEN [allowed |-> FALSE, reason |-> ErrQuotaBytes]
           ELSE [allowed |-> TRUE, reason |-> ""]

checkQuota(usage, userId, fileSize) ==
  LET quota == getUserQuota(usage, userId)
  IN  IF quota.used_bytes + fileSize > quota.max_bytes
      THEN [allowed |-> FALSE, reason |-> ErrQuotaBytes]
      ELSE IF quota.uploads_today >= quota.max_uploads_per_day
           THEN [allowed |-> FALSE, reason |-> ErrQuotaCount]
           ELSE [allowed |-> TRUE, reason |-> ""]

\* charges the bytes but does not count the upload
updateUsage_nocount(usage, userId, fileSize) ==
  LET quota == getUserQuota(usage, userId)
  IN  MapSet(usage, userId, [quota EXCEPT !.used_bytes = @ + fileSize])

updateUsage(usage, userId, fileSize) ==
  LET quota == getUserQuota(usage, userId)
  IN  MapSet(usage, userId,
             [quota EXCEPT !.used_bytes = @ + fileSize, !.uploads_today = @ + 1])

(* ------------------------------------------------------------------ *)
(* ArkivStorage: "v1" is src/src/storage/arkiv-storage.ts (arkiv-sdk), *)
(* "v2" its rewrite src/unnamed/part_000 (@arkiv-network/sdk).         *)
(* An entity is its payload and annotations; `copy` tells apart two     *)
(* entities of equal content (the store keys them by entityKey).        *)
(* ------------------------------------------------------------------ *)
Impls == {"v1", "v2"}

\* the chunk_index annotation: v1 writes chunk_index.toString(), v2 the
\* number chunk_index + 1
indexAttribute(impl, chunk_index) ==
  IF impl = "v1" THEN [t |-> "string", v |-> chunk_index]
                 ELSE [t |-> "number", v |-> chunk_index + 1]

\* the entity storeChunk creates
chunkEntityOf(impl, chunk) ==
  [media_id    |-> chunk.media_id,
   chunk_index |-> indexAttribute(impl, chunk.chunk_index),
   checksum    |-> chunk.checksum,
   payload     |-> chunk.data,
   copy        |-> 0]

\* createEntity gives every entity a key of its own
freshCopy(entities, ent) ==
  LET same == {e \in entities : /\ e.media_id = ent.media_id
                                /\ e.chunk_index = ent.chunk_index}
  IN  IF same = {} THEN 0
      ELSE 1 + (CHOOSE c \in {e.copy : e \in same} : \A e \in same : e.copy <= c)

\* ArkivStorage.storeChunk (both versions): one createEntity per call, with
\* no look at what the store holds
storeChunk(impl, entities, chunk) ==
  LET ent == chunkEntityOf(impl, chunk)
  IN  entities \cup {[ent EXCEPT !.copy = freshCopy(entities, ent)]}

\* the entity storeMetadata creates: the metadata as JSON
metaEntityOf(metadata) == [media_id |-> metadata.media_id, json |-> metadata]

\* getMetadata: the metadata entity of media_id parsed back, or "null"
getMetadata(entities, media_id) ==
  IF \E e \in entities : e.media_id = media_id
  THEN (CHOOSE e \in entities : e.media_id = media_id).json
  ELSE NoMeta

\* v1: parseInt(annotation); v2: Number(attribute)
readIndex(attr) == attr.v

\* Buffer.toString('base64') and Buffer.from(text, 'base64'), letter by letter
base64Encode(bytes) == [i \in 1..Len(bytes) |-> IF bytes[i] = 0 THEN "A" ELSE "B"]

base64Decode(text) == [i \in 1..Len(text) |-> IF text[i] = "A" THEN 0 ELSE 1]

\* v1 hands the payload on as a Buffer, v2 as payload.toString('base64')
readData(impl, payload) ==
  IF impl = "v1" THEN [isString |-> FALSE, bytes |-> payload, text |-> <<>>]
                 ELSE [isString |-> TRUE, bytes |-> <<>>, text |-> base64Encode(payload)]

mediaChunkOf(impl, e) ==
  [media_id    |-> e.media_id,
   chunk_index |-> readIndex(e.chunk_index),
   data        |-> readData(impl, e.payload),
   checksum    |-> e.checksum]

\* the query result as a list, in entity order
RECURSIVE entityList(_)
entityList(es) ==
  IF es = {} THEN <<>>
  ELSE LET e == CHOOSE x \in es :
                  \A y \in es : <<x.chunk_index.v, x.copy>> = <<y.chunk_index.v, y.copy>>
                                \/ x.chunk_index.v < y.chunk_index.v
                                \/ (x.chunk_index.v = y.chunk_index.v /\ x.copy < y.copy)
       IN  <<e>> \o entityList(es \ {e})

\* getAllChunks: every stored chunk entity of media_id, sorted by index
getAllChunks(impl, entities, media_id) ==
  LET found == entityList({e \in entities : e.media_id = media_id})
  IN  sortByIndex([i \in 1..Len(found) |-> mediaChunkOf(impl, found[i])])

\* a conversion that copies chunk.data without decoding a string
toChunkEntity_raw(chunk) ==
  [media_id    |-> chunk.media_id,
   chunk_index |-> chunk.chunk_index,
   data        |-> chunk.data.bytes,
   checksum    |-> chunk.checksum]

\* getMedia lines 91-99: MediaChunk to ChunkEntity; a string is decoded
\* from base64, anything else copied
toChunkEntity(chunk) ==
  [media_id    |-> chunk.media_id,
   chunk_index |-> chunk.chunk_index,
   data        |-> IF chunk.data.isString THEN base64Decode(chunk.data.text)
                                          ELSE chunk.data.bytes,
   checksum    |-> chunk.checksum]

(* ------------------------------------------------------------------ *)
(* Requests.  JavaScript runs a handler without interruption up to its *)
(* next await, so every action below is one such stretch of code.      *)
(* ------------------------------------------------------------------ *)
NoQuotaCheck == [allowed |-> FALSE, reason |-> ""]

IdleReq ==
  [op |-> "none", pc |-> "idle", key |-> "", user |-> "", file |-> NoFile,
   quotaCheck |-> NoQuotaCheck, media_id |-> 0, idx |-> 0,
   metadata |-> NoMeta, chunks |-> <<>>, seen |-> {}, readFailed |-> FALSE,
   fresh |-> FALSE, uploadsBefore |-> 0, usedBefore |-> 0, result |-> NoResult,
   attempt |-> 0, first |-> NoResult, firstFresh |-> FALSE, keyFresh |-> FALSE,
   headerless |-> FALSE]

uploadsToday(usage, u) == IF u \in DOMAIN usage THEN usage[u].uploads_today ELSE 0

usedBytes(usage, u) == IF u \in DOMAIN usage THEN usage[u].used_bytes ELSE 0

isValidImageType(contentType) == contentType \in {"image/jpeg", "image/png"}

InitService ==
  /\ uploadSessions = EmptyMap
  /\ userUsage = EmptyMap
  /\ chunkEntities = {}
  /\ metaEntities = {}
  /\ nextId = 1
  /\ req = [r \in Reqs |-> IdleReq]
  /\ calls = 0
  /\ faults = 0
  /\ uploaded = EmptyMap
  /\ chunkWritten = {}
  /\ chunkFailed = {}
  /\ metaWritten = {}

InitCodecIdle ==
  /\ cpc = "off"
  /\ cbuf = <<>>
  /\ cchunks = <<>>
  /\ cmeta = NoMeta
  /\ cout = <<>>

InitPrepIdle ==
  /\ ppc = "off"
  /\ pbuf = <<>>
  /\ pbtl = 0
  /\ pnow = 0
  /\ prun = <<>>
  /\ pwritten = <<>>

\* the metadata local of a getAllChunks call that found none
NoStoredMeta == [media_id |-> 0, chunk_count |-> 0, expiration_block |-> 0]

NoRead == [pc |-> "idle", media_id |-> 0, meta |-> NoStoredMeta,
           pending |-> <<>>, chunks |-> <<>>, block0 |-> 0]

InitReadIdle ==
  /\ rblock = 0
  /\ rchunks = EmptyMap
  /\ rentities = EmptyMap
  /\ rmeta = EmptyMap
  /\ rcalls = 0
  /\ rhist = EmptyMap
  /\ rread = NoRead

\* no timing fetched yet, and no getExpiresInSeconds call made yet
NoTiming == [currentBlock |-> 0, blockDuration |-> 0, cached |-> FALSE]

NoTtl == [pc |-> "idle", targetBlock |-> 0, timing |-> NoTiming, expiresIn |-> 0]

InitTtlIdle ==
  /\ blockTimingCache = NoTiming
  /\ ttl = NoTtl

\* a response of POST /media, and the request it answers
NoResponse == [status |-> 0, error |-> "", media_id |-> 0, message |-> ""]

InitRouteIdle ==
  /\ http = [kind |-> "none", result |-> NoResult, response |-> NoResponse]
  /\ served = <<>>
  /\ serverUsage = EmptyMap

InitStoreIdle ==
  /\ mchunks = EmptyMap
  /\ scalls = 0
  /\ scall = ChunkEntity(0, 0, <<>>)
  /\ sres = "none"
  /\ sprevC = {}
  /\ sprevM = EmptyMap

InitQuotaIdle ==
  /\ qpc = "off"
  /\ quser = ""
  /\ qsize = 0
  /\ qres = NoQuotaCheck
  /\ qusage = EmptyMap
  /\ qres2 = NoQuotaCheck
  /\ qusage2 = EmptyMap

Init ==
  /\ chunkSize = CHUNK_SIZE
  /\ storageImpl \in Impls
  /\ InitService
  /\ InitCodecIdle
  /\ InitQuotaIdle
  /\ InitStoreIdle
  /\ InitRouteIdle
  /\ InitPrepIdle
  /\ InitReadIdle
  /\ InitTtlIdle

\* the first idle slot takes the next call
FreeSlot(r) ==
  /\ req[r].pc = "idle"
  /\ calls < MaxCalls
  /\ r = "r2" => req["r1"].pc # "idle"

storeUnchanged == UNCHANGED <<chunkEntities, metaEntities>>

historyUnchanged == UNCHANGED <<uploaded, chunkWritten, chunkFailed, metaWritten>>

configUnchanged ==
  UNCHANGED <<chunkSize, storageImpl, cpc, cbuf, cchunks, cmeta, cout, quotaVars,
              storeVars, routeVars, prepVars, readVars, ttlVars>>

\* the type is validated before the size
initiateUpload_typeFirst(r, call) ==
  IF ~isValidImageType(call.file.ctype)
  THEN /\ req' = [req EXCEPT ![r] = [call EXCEPT !.pc = "done",
                                                !.result = Failure(ErrType)]]
       /\ UNCHANGED userUsage
  ELSE IF Len(call.file.buf) > MAX_FILE_SIZE
  THEN /\ req' = [req EXCEPT ![r] = [call EXCEPT !.pc = "done",
                                                !.result = Failure(ErrTooLarge)]]
       /\ UNCHANGED userUsage
  ELSE /\ req' = [req EXCEPT ![r] =
                    [call EXCEPT !.pc = "await_quota",
                                 !.quotaCheck = checkQuota(userUsage, call.user,
                                                           Len(call.file.buf))]]
       /\ userUsage' = withUser(userUsage, call.user)

\* initiateUpload lines 19-27: size and type validation, then checkQuota is
\* called (its body runs at once) and the handler waits on its promise.
\* `call` carries the arguments.
initiateUpload(r, call) ==
  IF Len(call.file.buf) > MAX_FILE_SIZE
  THEN /\ req' = [req EXCEPT ![r] = [call EXCEPT !.pc = "done",
                                                !.result = Failure(ErrTooLarge)]]
       /\ UNCHANGED userUsage
  ELSE IF ~isValidImageType(call.file.ctype)
  THEN /\ req' = [req EXCEPT ![r] = [call EXCEPT !.pc = "done",
                                                !.result = Failure(ErrType)]]
       /\ UNCHANGED userUsage
  ELSE /\ req' = [req EXCEPT ![r] =
                    [call EXCEPT !.pc = "await_quota",
                                 !.quotaCheck = checkQuota(userUsage, call.user,
                                                           Len(call.file.buf))]]
       /\ userUsage' = withUser(userUsage, call.user)

\* key and user names are interchangeable: the second name is used only
\* once the first is taken
KeyInUse(k) == k \in DOMAIN uploadSessions \/ \E q \in Reqs : req[q].key = k

NextKeys == IF KeyInUse("k1") THEN Keys ELSE {"k1"}

NextUsers == IF "u1" \in DOMAIN userUsage THEN Users ELSE {"u1"}

\* a client calls initiateUpload
InitiateUploadCall(r, idempotencyKey, userId, file) ==
  /\ FreeSlot(r)
  /\ initiateUpload(r, [IdleReq EXCEPT !.op = "upload", !.key = idempotencyKey,
                                       !.user = userId, !.file = file,
                                       !.attempt = 1,
                                       !.keyFresh = idempotencyKey \notin DOMAIN uploadSessions,
                                       !.uploadsBefore = uploadsToday(userUsage, userId),
                                       !.usedBefore = usedBytes(userUsage, userId)])
  /\ calls' = calls + 1
  /\ UNCHANGED <<uploadSessions, nextId, faults>>
  /\ storeUnchanged /\ historyUnchanged /\ configUnchanged

\* the client that got a result calls initiateUpload again, at once, with the
\* same key, file and user
RetryUploadCall(r) ==
  /\ req[r].pc = "done"
  /\ req[r].op = "upload"
  /\ req[r].attempt = 1
  /\ calls < MaxCalls
  /\ initiateUpload(r, [IdleReq EXCEPT !.op = "upload", !.key = req[r].key,
                                       !.user = req[r].user, !.file = req[r].file,
                                       !.attempt = 2,
                                       !.keyFresh = req[r].key \notin DOMAIN uploadSessions,
                                       !.first = req[r].result,
                                       !.firstFresh = req[r].fresh,
                                       !.uploadsBefore = req[r].uploadsBefore,
                                       !.usedBefore = req[r].usedBefore])
  /\ calls' = calls + 1
  /\ UNCHANGED <<uploadSessions, nextId, faults>>
  /\ storeUnchanged /\ historyUnchanged /\ configUnchanged

\* the client whose call was answered calls initiateUpload again with the same
\* key and user and with any file
RetryWithFileCall(r, file) ==
  /\ req[r].pc = "done"
  /\ req[r].op = "upload"
  /\ req[r].attempt = 1
  /\ calls < MaxCalls
  /\ initiateUpload(r, [IdleReq EXCEPT !.op = "upload", !.key = req[r].key,
                                       !.user = req[r].user, !.file = file,
                                       !.attempt = 2,
                                       !.keyFresh = req[r].key \notin DOMAIN uploadSessions,
                                       !.first = req[r].result,
                                       !.firstFresh = req[r].fresh,
                                       !.uploadsBefore = uploadsToday(userUsage, req[r].user),
                                       !.usedBefore = usedBytes(userUsage, req[r].user)])
  /\ calls' = calls + 1
  /\ UNCHANGED <<uploadSessions, nextId, faults>>
  /\ storeUnchanged /\ historyUnchanged /\ configUnchanged

\* a denial that leaves a session behind for the key
QuotaDenied_registers(r) ==
  /\ req[r].pc = "await_quota"
  /\ ~req[r].quotaCheck.allowed
  /\ req' = [req EXCEPT ![r].pc = "done",
                        ![r].result = Failure(req[r].quotaCheck.reason)]
  /\ uploadSessions' =
       MapSet(uploadSessions, req[r].key,
              [media_id |-> nextId, idempotency_key |-> req[r].key,
               metadata |-> createMetadata(nextId, req[r].file.ctype, req[r].file.buf),
               chunks_received |-> {}, completed |-> FALSE])
  /\ UNCHANGED <<userUsage, nextId, calls, faults>>
  /\ storeUnchanged /\ historyUnchanged /\ configUnchanged

\* lines 28-30: the quota check denied
QuotaDenied(r) ==
  /\ req[r].pc = "await_quota"
  /\ ~req[r].quotaCheck.allowed
  /\ req' = [req EXCEPT ![r].pc = "done",
                        ![r].result = Failure(req[r].quotaCheck.reason)]
  /\ UNCHANGED <<uploadSessions, userUsage, nextId, calls, faults>>
  /\ storeUnchanged /\ historyUnchanged /\ configUnchanged

\* a lookup that never finds a session
findExistingSession_never(idempotencyKey) == idempotencyKey \in {}

findExistingSession(idempotencyKey) == idempotencyKey \in DOMAIN uploadSessions

\* a replay that charges the user again
ExistingSessionReturn_recharge(r) ==
  /\ req[r].pc = "await_quota"
  /\ req[r].quotaCheck.allowed
  /\ findExistingSession(req[r].key)
  /\ req' = [req EXCEPT ![r].pc = "done",
                        ![r].result = UploadSuccess(uploadSessions[req[r].key].media_id)]
  /\ userUsage' = updateUsage(userUsage, req[r].user, Len(req[r].file.buf))
  /\ UNCHANGED <<uploadSessions, nextId, calls, faults>>
  /\ storeUnchanged /\ historyUnchanged /\ configUnchanged

\* a replay that answers the session's media_id only to the file and user
\* that made it, and a fresh id to anyone else
ExistingSessionReturn_sameCaller(r) ==
  /\ req[r].pc = "await_quota"
  /\ req[r].quotaCheck.allowed
  /\ findExistingSession(req[r].key)
  /\ LET session == uploadSessions[req[r].key]
         same == /\ uploaded[session.media_id].user = req[r].user
                 /\ uploaded[session.media_id].buf = req[r].file.buf
     IN  /\ req' = [req EXCEPT
                      ![r].pc = "done",
                      ![r].result = UploadSuccess(IF same THEN session.media_id
                                                          ELSE nextId)]
         /\ nextId' = IF same THEN nextId ELSE nextId + 1
  /\ UNCHANGED <<uploadSessions, userUsage, calls, faults>>
  /\ storeUnchanged /\ historyUnchanged /\ configUnchanged

\* lines 32-35: a session exists for the key
ExistingSessionReturn(r) ==
  /\ req[r].pc = "await_quota"
  /\ req[r].quotaCheck.allowed
  /\ findExistingSession(req[r].key)
  /\ req' = [req EXCEPT ![r].pc = "done",
                        ![r].result = UploadSuccess(uploadSessions[req[r].key].media_id)]
  /\ UNCHANGED <<uploadSessions, userUsage, nextId, calls, faults>>
  /\ storeUnchanged /\ historyUnchanged /\ configUnchanged

\* an id source that hands out the same id every time
generateMediaId_fixed(n) == 1

\* ChunkingService.generateMediaId: crypto.randomUUID(), a value never
\* handed out before (the n-th call gives id n)
generateMediaId(n) == n

\* lines 37-59: fresh media id, metadata, session registered, file chunked;
\* the handler then waits on the first store call
BeginUpload(r) ==
  /\ req[r].pc = "await_quota"
  /\ req[r].quotaCheck.allowed
  /\ ~findExistingSession(req[r].key)
  /\ LET media_id == generateMediaId(nextId)
         metadata == createMetadata(media_id, req[r].file.ctype, req[r].file.buf)
         session  == [media_id |-> media_id, idempotency_key |-> req[r].key,
                      metadata |-> metadata, chunks_received |-> {},
                      completed |-> FALSE]
         chunks   == chunkFile(req[r].file.buf, media_id)
     IN  /\ nextId' = nextId + 1
         /\ uploadSessions' = MapSet(uploadSessions, req[r].key, session)
         /\ uploaded' = MapSet(uploaded, media_id,
                               [user |-> req[r].user, buf |-> req[r].file.buf,
                                key |-> req[r].key])
         /\ req' = [req EXCEPT ![r].media_id = media_id,
                               ![r].metadata = metadata,
                               ![r].chunks = chunks,
                               ![r].fresh = TRUE,
                               ![r].idx = 1,
                               ![r].pc = IF chunks = <<>> THEN "store_meta"
                                                          ELSE "store_chunk"]
  /\ UNCHANGED <<userUsage, calls, faults, chunkWritten, chunkFailed,
                 metaWritten>>
  /\ storeUnchanged /\ configUnchanged


\* lines 62-65: storage.storeChunk(chunk) resolved; the index is recorded in
\* the session and the next store call is issued
StoreChunkOk(r) ==
  /\ req[r].pc = "store_chunk"
  /\ LET chunk == req[r].chunks[req[r].idx]
         key   == req[r].key
     IN  /\ chunkEntities' = storeChunk(storageImpl, chunkEntities, chunk)
         /\ uploadSessions' = [uploadSessions EXCEPT
                                 ![key].chunks_received = @ \cup {chunk.chunk_index}]
         /\ chunkWritten' = chunkWritten \cup {<<chunk.media_id, chunk.chunk_index>>}
         /\ req' = [req EXCEPT ![r].idx = @ + 1,
                               ![r].pc = IF req[r].idx = Len(req[r].chunks)
                                         THEN "store_meta" ELSE "store_chunk"]
  /\ UNCHANGED <<metaEntities, userUsage, nextId, calls, faults,
                 uploaded, chunkFailed, metaWritten>>
  /\ configUnchanged

\* a rejected chunk write that is swallowed: the upload goes on to its metadata
StoreChunkFail_swallow(r) ==
  /\ req[r].pc = "store_chunk"
  /\ chunkFailed' = chunkFailed \cup {req[r].media_id}
  /\ req' = [req EXCEPT ![r].pc = "store_meta"]
  /\ UNCHANGED <<uploadSessions, userUsage, nextId, calls, faults,
                 uploaded, chunkWritten, metaWritten>>
  /\ storeUnchanged /\ configUnchanged

\* a rejected chunk write after which the session is taken back
StoreChunkFail_rollback(r) ==
  /\ req[r].pc = "store_chunk"
  /\ chunkFailed' = chunkFailed \cup {req[r].media_id}
  /\ uploadSessions' = [k \in DOMAIN uploadSessions \ {req[r].key} |-> uploadSessions[k]]
  /\ req' = [req EXCEPT ![r].pc = "done", ![r].result = Failure(ErrUpload)]
  /\ UNCHANGED <<userUsage, nextId, calls, faults,
                 uploaded, chunkWritten, metaWritten>>
  /\ storeUnchanged /\ configUnchanged

\* a rejected chunk write whose error leaves initiateUpload as an exception
StoreChunkFail_throws(r) ==
  /\ req[r].pc = "store_chunk"
  /\ chunkFailed' = chunkFailed \cup {req[r].media_id}
  /\ req' = [req EXCEPT ![r].pc = "done", ![r].result = NoResult]
  /\ UNCHANGED <<uploadSessions, userUsage, nextId, calls, faults,
                 uploaded, chunkWritten, metaWritten>>
  /\ storeUnchanged /\ configUnchanged

\* lines 63, 73-75: storage.storeChunk(chunk) rejected (no write client, RPC
\* error); the catch block returns the failure and nothing is undone
StoreChunkFail(r) ==
  /\ req[r].pc = "store_chunk"
  /\ chunkFailed' = chunkFailed \cup {req[r].media_id}
  /\ req' = [req EXCEPT ![r].pc = "done", ![r].result = Failure(ErrUpload)]
  /\ UNCHANGED <<uploadSessions, userUsage, nextId, calls, faults,
                 uploaded, chunkWritten, metaWritten>>
  /\ storeUnchanged /\ configUnchanged

\* a completion whose quota commit is left to a later turn of the event loop
StoreMetadataOk_uncharged(r) ==
  /\ req[r].pc = "store_meta"
  /\ metaEntities' = metaEntities \cup {metaEntityOf(req[r].metadata)}
  /\ uploadSessions' = [uploadSessions EXCEPT ![req[r].key].completed = TRUE]
  /\ metaWritten' = metaWritten \cup {req[r].media_id}
  /\ req' = [req EXCEPT ![r].pc = "await_usage"]
  /\ UNCHANGED <<chunkEntities, userUsage, nextId, calls, faults, uploaded,
                 chunkWritten, chunkFailed>>
  /\ configUnchanged

\* an accepted metadata write after which the session is not marked completed
StoreMetadataOk_unmarked(r) ==
  /\ req[r].pc = "store_meta"
  /\ metaEntities' = metaEntities \cup {metaEntityOf(req[r].metadata)}
  /\ userUsage' = updateUsage(userUsage, req[r].user, Len(req[r].file.buf))
  /\ metaWritten' = metaWritten \cup {req[r].media_id}
  /\ req' = [req EXCEPT ![r].pc = "await_usage"]
  /\ UNCHANGED <<chunkEntities, uploadSessions, nextId, calls, faults, uploaded,
                 chunkWritten, chunkFailed>>
  /\ configUnchanged

\* lines 67-70: storage.storeMetadata resolved; the session is completed and
\* updateUsage is called (its body runs at once), then the handler waits on it
StoreMetadataOk(r) ==
  /\ req[r].pc = "store_meta"
  /\ metaEntities' = metaEntities \cup {metaEntityOf(req[r].metadata)}
  /\ uploadSessions' = [uploadSessions EXCEPT ![req[r].key].completed = TRUE]
  /\ userUsage' = updateUsage(userUsage, req[r].user, Len(req[r].file.buf))
  /\ metaWritten' = metaWritten \cup {req[r].media_id}
  /\ req' = [req EXCEPT ![r].pc = "await_usage"]
  /\ UNCHANGED <<chunkEntities, nextId, calls, faults, uploaded,
                 chunkWritten, chunkFailed>>
  /\ configUnchanged

\* a rejected metadata write after which the session is completed all the same
StoreMetadataFail_completes(r) ==
  /\ req[r].pc = "store_meta"
  /\ uploadSessions' = [uploadSessions EXCEPT ![req[r].key].completed = TRUE]
  /\ req' = [req EXCEPT ![r].pc = "done", ![r].result = Failure(ErrUpload)]
  /\ UNCHANGED <<userUsage, nextId, calls, faults>>
  /\ storeUnchanged /\ historyUnchanged /\ configUnchanged

\* lines 67, 73-75: storage.storeMetadata rejected
StoreMetadataFail(r) ==
  /\ req[r].pc = "store_meta"
  /\ req' = [req EXCEPT ![r].pc = "done", ![r].result = Failure(ErrUpload)]
  /\ UNCHANGED <<uploadSessions, userUsage, nextId, calls, faults>>
  /\ storeUnchanged /\ historyUnchanged /\ configUnchanged

\* line 72
UploadReturn(r) ==
  /\ req[r].pc = "await_usage"
  /\ req' = [req EXCEPT ![r].pc = "done",
                        ![r].result = UploadSuccess(req[r].media_id)]
  /\ UNCHANGED <<uploadSessions, userUsage, nextId, calls, faults>>
  /\ storeUnchanged /\ historyUnchanged /\ configUnchanged

\* the caller has the result; the slot is free again
Finish(r) ==
  /\ req[r].pc = "done"
  /\ req' = [req EXCEPT ![r] = IdleReq]
  /\ UNCHANGED <<uploadSessions, userUsage, nextId, calls, faults>>
  /\ storeUnchanged /\ historyUnchanged /\ configUnchanged

(* ------------------------------------------------------------------ *)
(* getMedia (upload.ts lines 78-111)                                   *)
(* ------------------------------------------------------------------ *)
\* ids a client may ask for: every id handed out so far and one unknown
KnownIds == 1..nextId

\* line 80: getMedia called; it waits on storage.getMetadata
GetMediaCall(r, media_id) ==
  /\ FreeSlot(r)
  /\ req' = [req EXCEPT ![r] = [IdleReq EXCEPT !.op = "get", !.pc = "get_meta",
                                               !.media_id = media_id]]
  /\ calls' = calls + 1
  /\ UNCHANGED <<uploadSessions, userUsage, nextId, faults>>
  /\ storeUnchanged /\ historyUnchanged /\ configUnchanged

\* lines 80-85: getMetadata answered (a failed read answers null, as both
\* ArkivStorage classes catch it); on metadata the handler waits on getAllChunks
GetMetadataStep(r, readOk) ==
  /\ req[r].pc = "get_meta"
  /\ LET metadata == IF readOk THEN getMetadata(metaEntities, req[r].media_id)
                               ELSE NoMeta
     IN  IF metadata = NoMeta
         THEN req' = [req EXCEPT ![r].pc = "done", ![r].readFailed = ~readOk,
                                 ![r].result = Failure(ErrNotFound)]
         ELSE req' = [req EXCEPT ![r].pc = "get_chunks", ![r].metadata = metadata]
  /\ UNCHANGED <<uploadSessions, userUsage, nextId, calls, faults>>
  /\ storeUnchanged /\ historyUnchanged /\ configUnchanged

\* a getMedia that reassembles whatever getAllChunks returned, nothing included
GetChunksOk_anyLength(r) ==
  /\ req[r].pc = "get_chunks"
  /\ LET chunks == getAllChunks(storageImpl, chunkEntities, req[r].media_id)
         chunkEntitiesOf == [i \in 1..Len(chunks) |-> toChunkEntity(chunks[i])]
         reassembledBuffer == reassembleFile(chunkEntitiesOf)
         seen == {e \in chunkEntities : e.media_id = req[r].media_id}
     IN  req' = [req EXCEPT
                   ![r].pc = "done",
                   ![r].seen = seen,
                   ![r].result =
                     IF ~validateFileIntegrity(req[r].metadata.checksum,
                                               reassembledBuffer)
                     THEN Failure(ErrIntegrity)
                     ELSE MediaSuccess(reassembledBuffer, req[r].metadata)]
  /\ UNCHANGED <<uploadSessions, userUsage, nextId, calls, faults>>
  /\ storeUnchanged /\ historyUnchanged /\ configUnchanged

\* lines 85-107: getAllChunks answered; reassembly and the integrity check
GetChunksOk(r) ==
  /\ req[r].pc = "get_chunks"
  /\ LET chunks == getAllChunks(storageImpl, chunkEntities, req[r].media_id)
         chunkEntitiesOf == [i \in 1..Len(chunks) |-> toChunkEntity(chunks[i])]
         reassembledBuffer == reassembleFile(chunkEntitiesOf)
         seen == {e \in chunkEntities : e.media_id = req[r].media_id}
     IN  req' = [req EXCEPT
                   ![r].pc = "done",
                   ![r].seen = seen,
                   ![r].result =
                     IF Len(chunks) = 0 THEN Failure(ErrIncomplete)
                     ELSE IF ~validateFileIntegrity(req[r].metadata.checksum,
                                                    reassembledBuffer)
                          THEN Failure(ErrIntegrity)
                          ELSE MediaSuccess(reassembledBuffer, req[r].metadata)]
  /\ UNCHANGED <<uploadSessions, userUsage, nextId, calls, faults>>
  /\ storeUnchanged /\ historyUnchanged /\ configUnchanged

\* lines 85, 108-110: getAllChunks threw
GetChunksFail(r) ==
  /\ req[r].pc = "get_chunks"
  /\ req' = [req EXCEPT ![r].pc = "done", ![r].readFailed = TRUE,
                        ![r].result = Failure(ErrRetrieval)]
  /\ UNCHANGED <<uploadSessions, userUsage, nextId, calls, faults>>
  /\ storeUnchanged /\ historyUnchanged /\ configUnchanged

(* ------------------------------------------------------------------ *)
(* GET /media/:media_id (server.ts lines 66-97): what the route makes  *)
(* of the result of getMedia.  The filename of Content-Disposition is  *)
(* carried like content_type and is left out.                          *)
(* ------------------------------------------------------------------ *)
\* line 73, result.error?.includes('not found'), over the errors of getMedia
includesNotFound(error) ==
  [e \in {ErrNotFound, ErrIncomplete, ErrIntegrity, ErrRetrieval} |->
     e \in {ErrNotFound, ErrIncomplete}][error]

jsonError(status, error) ==
  [status |-> status, error |-> error, raw |-> FALSE, body |-> <<>>,
   content_type |-> "application/json", content_length |-> 0]

mediaRoute(result) ==
  IF ~result.success
  THEN jsonError(IF includesNotFound(result.error) THEN 404 ELSE 500, result.error)
  ELSE IF result.metadata = NoMeta
       THEN jsonError(500, "Metadata missing from result")
       ELSE [status |-> 200, error |-> "", raw |-> TRUE, body |-> result.buffer,
             content_type |-> result.metadata.content_type,
             content_length |-> result.metadata.file_size]

(* ------------------------------------------------------------------ *)
(* getChunkInfo (upload.ts lines 125-161), as a reading of the store   *)
(* ------------------------------------------------------------------ *)
NoChunkInfo == [success |-> FALSE, error |-> "", total_chunks |-> 0, entities |-> <<>>]

chunkInfoOf(chunk) ==
  [chunk_index |-> chunk.chunk_index,
   size        |-> IF chunk.data.isString THEN Len(base64Decode(chunk.data.text))
                                          ELSE Len(chunk.data.bytes),
   checksum    |-> chunk.checksum]

getChunkInfo(impl, metas, entities, media_id) ==
  LET metadata == getMetadata(metas, media_id)
      chunks   == getAllChunks(impl, entities, media_id)
  IN  IF metadata = NoMeta THEN [NoChunkInfo EXCEPT !.error = ErrNotFound]
      ELSE IF Len(chunks) = 0 THEN [NoChunkInfo EXCEPT !.error = ErrIncomplete]
      ELSE [success |-> TRUE, error |-> "", total_chunks |-> metadata.chunk_count,
            entities |-> [i \in 1..Len(chunks) |-> chunkInfoOf(chunks[i])]]

(* ------------------------------------------------------------------ *)
(* The backing store on its own: records expire per entity, and a      *)
(* record may be altered or doubled behind the service's back.         *)
(* ------------------------------------------------------------------ *)
serviceUnchanged ==
  UNCHANGED <<uploadSessions, userUsage, nextId, req, calls>>

\* Only a read observes the store, and no write of the service depends on
\* what the store holds, so a fault is taken while the read that can see it
\* is pending: a fault at any other time has the effect of the same fault
\* taken just before the next read of that record.
ReadPending(pc, media_id) ==
  \E r \in Reqs : req[r].pc = pc /\ req[r].media_id = media_id

FaultAllowed(pc, media_id) == faults < MaxFaults /\ ReadPending(pc, media_id)

StoreExpireChunk(e) ==
  /\ FaultAllowed("get_chunks", e.media_id)
  /\ e \in chunkEntities
  /\ chunkEntities' = chunkEntities \ {e}
  /\ faults' = faults + 1
  /\ UNCHANGED metaEntities
  /\ serviceUnchanged /\ historyUnchanged /\ configUnchanged

StoreExpireMetadata(e) ==
  /\ FaultAllowed("get_meta", e.media_id)
  /\ e \in metaEntities
  /\ metaEntities' = metaEntities \ {e}
  /\ faults' = faults + 1
  /\ UNCHANGED chunkEntities
  /\ serviceUnchanged /\ historyUnchanged /\ configUnchanged

flipByte(bytes, p) == [bytes EXCEPT ![p] = 1 - @]

StoreCorruptChunk(e, p) ==
  /\ FaultAllowed("get_chunks", e.media_id)
  /\ e \in chunkEntities
  /\ p \in 1..Len(e.payload)
  /\ chunkEntities' = (chunkEntities \ {e}) \cup
                        {[e EXCEPT !.payload = flipByte(e.payload, p)]}
  /\ faults' = faults + 1
  /\ UNCHANGED metaEntities
  /\ serviceUnchanged /\ historyUnchanged /\ configUnchanged

StoreDuplicateChunk(e) ==
  /\ FaultAllowed("get_chunks", e.media_id)
  /\ e \in chunkEntities
  /\ e.copy = 0
  /\ chunkEntities' = chunkEntities \cup {[e EXCEPT !.copy = 1]}
  /\ faults' = faults + 1
  /\ UNCHANGED metaEntities
  /\ serviceUnchanged /\ historyUnchanged /\ configUnchanged

(* ------------------------------------------------------------------ *)
(* Specifications                                                      *)
(* ------------------------------------------------------------------ *)
Step(r) ==
  \/ QuotaDenied(r)
  \/ ExistingSessionReturn(r)
  \/ BeginUpload(r)
  \/ StoreChunkOk(r)
  \/ StoreChunkFail(r)
  \/ StoreMetadataOk(r)
  \/ StoreMetadataFail(r)
  \/ UploadReturn(r)
  \/ Finish(r)
  \/ \E readOk \in BOOLEAN : GetMetadataStep(r, readOk)
  \/ GetChunksOk(r)
  \/ GetChunksFail(r)

StoreFault ==
  \/ \E e \in chunkEntities : StoreExpireChunk(e)
  \/ \E e \in metaEntities : StoreExpireMetadata(e)
  \/ \E e \in chunkEntities : \E p \in 1..Len(e.payload) : StoreCorruptChunk(e, p)
  \/ \E e \in chunkEntities : StoreDuplicateChunk(e)

Call(r, files) ==
  \/ \E k \in NextKeys, u \in NextUsers, f \in files : InitiateUploadCall(r, k, u, f)
  \/ \E m \in KnownIds : GetMediaCall(r, m)

\* requests interleave at their awaits
Next ==
  \/ \E r \in Reqs : Call(r, RacingFiles)
  \/ \E r \in Reqs : Step(r)
  \/ StoreFault

Spec == Init /\ [][Next]_vars

\* one request at a time: a call starts only when no other is in flight
NoneInFlight == \A r \in Reqs : req[r].pc = "idle"

NextSeq ==
  \/ \E r \in Reqs : NoneInFlight /\ Call(r, AllFiles)
  \/ \E r \in Reqs : RetryUploadCall(r)
  \/ \E r \in Reqs : Step(r)
  \/ StoreFault

SpecSeq == Init /\ [][NextSeq]_vars

\* one request at a time, and a client may call again under its key with
\* another file
NextReject ==
  \/ \E r \in Reqs : NoneInFlight /\ Call(r, AllFiles)
  \/ \E r \in Reqs, f \in AllFiles : RetryWithFileCall(r, f)
  \/ \E r \in Reqs : Step(r)
  \/ StoreFault

SpecReject == Init /\ [][NextReject]_vars

\* one request at a time, the file of no bytes among the files sent
EmptyFiles ==
  { [buf |-> <<>>,        ctype |-> "image/png"],
    [buf |-> <<0, 1, 1>>, ctype |-> "image/png"] }

NextEmpty ==
  \/ \E r \in Reqs : NoneInFlight /\ Call(r, EmptyFiles)
  \/ \E r \in Reqs : Step(r)
  \/ StoreFault

SpecEmpty == Init /\ [][NextEmpty]_vars


(* ------------------------------------------------------------------ *)
(* The codec on its own: any buffer up to MaxLen bytes, any chunk size *)
(* up to MaxChunkSize, chunked and put together again.                 *)
(* ------------------------------------------------------------------ *)
RECURSIVE Buffers(_)
Buffers(n) ==
  IF n = 0 THEN {<<>>}
  ELSE Buffers(n - 1) \cup
       {Append(b, x) : b \in {c \in Buffers(n - 1) : Len(c) = n - 1}, x \in Byte}

InitCodec ==
  /\ chunkSize \in 1..MaxChunkSize
  /\ storageImpl = "v1"
  /\ InitService
  /\ cpc = "input"
  /\ cbuf \in Buffers(MaxLen)
  /\ cchunks = <<>>
  /\ cmeta = NoMeta
  /\ cout = <<>>
  /\ InitQuotaIdle
  /\ InitStoreIdle
  /\ InitRouteIdle
  /\ InitPrepIdle
  /\ InitReadIdle
  /\ InitTtlIdle

\* chunkFile and createMetadata as initiateUpload calls them (lines 40-59)
CodecChunk ==
  /\ cpc = "input"
  /\ cchunks' = chunkFile(cbuf, 1)
  /\ cmeta' = createMetadata(1, "image/png", cbuf)
  /\ cpc' = "chunked"
  /\ UNCHANGED <<chunkSize, cbuf, cout>>
  /\ UNCHANGED sysVars
  /\ UNCHANGED quotaVars
  /\ UNCHANGED storeVars
  /\ UNCHANGED routeVars
  /\ UNCHANGED prepVars
  /\ UNCHANGED <<readVars, ttlVars>>

\* reassembleFile as getMedia calls it (line 101)
CodecReassemble ==
  /\ cpc = "chunked"
  /\ cout' = reassembleFile(cchunks)
  /\ cpc' = "reassembled"
  /\ UNCHANGED <<chunkSize, cbuf, cchunks, cmeta>>
  /\ UNCHANGED sysVars
  /\ UNCHANGED quotaVars
  /\ UNCHANGED storeVars
  /\ UNCHANGED routeVars
  /\ UNCHANGED prepVars
  /\ UNCHANGED <<readVars, ttlVars>>

NextCodec ==
  \/ CodecChunk
  \/ CodecReassemble

SpecCodec == InitCodec /\ [][NextCodec]_vars

(* ------------------------------------------------------------------ *)
(* Lines 37-59 of initiateUpload on their own, with the fields of the  *)
(* records that the service model leaves out: the id of a chunk        *)
(* (crypto.randomUUID), created_at (new Date()) and expiration_block.  *)
(* The clock is counted in block times and moves between any two steps.*)
(* ------------------------------------------------------------------ *)
\* ArkivStorage.calculateExpirationBlock, with Date.now() given
calculateExpirationBlock(now, btlDays) == now + btlDays * BLOCKS_PER_DAY

\* a chunkFile that reads the clock and adds the index for every chunk
chunkFileAt_perChunk(fileBuffer, media_id, expiration_block, now, uuid) ==
  LET chunks == chunkFile(fileBuffer, media_id)
  IN  [i \in 1..Len(chunks) |->
         [id |-> uuid + i, media_id |-> media_id,
          chunk_index |-> chunks[i].chunk_index, data |-> chunks[i].data,
          checksum |-> chunks[i].checksum, created_at |-> now,
          expiration_block |-> expiration_block + chunks[i].chunk_index]]

\* a chunkFile whose checksums take in the id of the chunk
chunkFileAt_salted(fileBuffer, media_id, expiration_block, now, uuid) ==
  LET chunks == chunkFile(fileBuffer, media_id)
  IN  [i \in 1..Len(chunks) |->
         [id |-> uuid + i, media_id |-> media_id,
          chunk_index |-> chunks[i].chunk_index, data |-> chunks[i].data,
          checksum |-> calculateChecksum(<<uuid>> \o chunks[i].data),
          created_at |-> now, expiration_block |-> expiration_block]]

\* ChunkingService.chunkFile with every field of ChunkEntity; uuid stands for
\* what crypto.randomUUID returns, now for new Date()
chunkFileAt(fileBuffer, media_id, expiration_block, now, uuid) ==
  LET chunks == chunkFile(fileBuffer, media_id)
  IN  [i \in 1..Len(chunks) |->
         [id |-> uuid + i, media_id |-> media_id,
          chunk_index |-> chunks[i].chunk_index, data |-> chunks[i].data,
          checksum |-> chunks[i].checksum, created_at |-> now,
          expiration_block |-> expiration_block]]

\* ChunkingService.createMetadata with every field of MediaMetadata but the
\* filename
createMetadataAt(media_id, content_type, fileBuffer, btl_days, expiration_block, now) ==
  LET metadata == createMetadata(media_id, content_type, fileBuffer)
  IN  [media_id |-> media_id, content_type |-> content_type,
       file_size |-> metadata.file_size, chunk_count |-> metadata.chunk_count,
       checksum |-> metadata.checksum, created_at |-> now,
       expiration_block |-> expiration_block, btl_days |-> btl_days]

BtlDays == {1, 7}

InitPrepare ==
  /\ chunkSize = CHUNK_SIZE
  /\ storageImpl = "v1"
  /\ InitService
  /\ InitCodecIdle
  /\ InitQuotaIdle
  /\ InitStoreIdle
  /\ InitRouteIdle
  /\ InitReadIdle
  /\ InitTtlIdle
  /\ ppc = "input"
  /\ pbuf \in {b \in Buffers(MaxLen) : Len(b) <= MAX_FILE_SIZE}
  /\ pbtl \in BtlDays
  /\ pnow = 0
  /\ prun = <<>>
  /\ pwritten = <<>>

prepFrame ==
  /\ UNCHANGED <<chunkSize, pbuf, pbtl>>
  /\ UNCHANGED sysVars
  /\ UNCHANGED codecVars
  /\ UNCHANGED quotaVars
  /\ UNCHANGED storeVars
  /\ UNCHANGED routeVars
  /\ UNCHANGED <<readVars, ttlVars>>

\* time passes
ClockTick ==
  /\ pnow < MaxClock
  /\ pnow' = pnow + 1
  /\ UNCHANGED <<ppc, prun, pwritten>>
  /\ prepFrame

\* lines 37-59: media id, expiration block, metadata and chunks of one upload
PrepareUpload(media_id, uuid) ==
  /\ Len(prun) < MaxRuns
  /\ pwritten = <<>>
  /\ LET expiration_block == calculateExpirationBlock(pnow, pbtl)
     IN  prun' = Append(prun,
                   [at |-> pnow, expiration_block |-> expiration_block,
                    metadata |-> createMetadataAt(media_id, "image/png", pbuf, pbtl,
                                                  expiration_block, pnow),
                    chunks |-> chunkFileAt(pbuf, media_id, expiration_block, pnow, uuid)])
  /\ ppc' = "prepared"
  /\ UNCHANGED <<pnow, pwritten>>
  /\ prepFrame

\* lines 62-63: the next chunk of the upload goes to storage.storeChunk
HandChunk ==
  /\ ppc = "prepared"
  /\ Len(prun) = 1
  /\ Len(pwritten) < Len(prun[1].chunks)
  /\ pwritten' = Append(pwritten, prun[1].chunks[Len(pwritten) + 1])
  /\ UNCHANGED <<ppc, pnow, prun>>
  /\ prepFrame

\* line 67: the metadata goes to storage.storeMetadata
HandMetadata ==
  /\ ppc = "prepared"
  /\ Len(prun) = 1
  /\ Len(pwritten) = Len(prun[1].chunks)
  /\ pwritten' = Append(pwritten, prun[1].metadata)
  /\ ppc' = "stored"
  /\ UNCHANGED <<pnow, prun>>
  /\ prepFrame

\* the same buffer prepared more than once, at any times
NextDeterminism ==
  \/ ClockTick
  \/ \E media_id \in {1, 2}, uuid \in {0, 10} : PrepareUpload(media_id, uuid)

SpecDeterminism == InitPrepare /\ [][NextDeterminism]_vars

\* one upload prepared and its records handed to the store while time passes
NextExpiry ==
  \/ ClockTick
  \/ \E uuid \in {0, 10} : prun = <<>> /\ PrepareUpload(1, uuid)
  \/ HandChunk
  \/ HandMetadata

SpecExpiry == InitPrepare /\ [][NextExpiry]_vars

(* ------------------------------------------------------------------ *)
(* reassembleFile on its own: any list of up to MaxChunks chunks with  *)
(* pairwise distinct indices, in any order and with gaps.              *)
(* ------------------------------------------------------------------ *)
ChunkPayloads == {<<0>>, <<1>>, <<0, 1>>}

ChunkLists ==
  UNION {{l \in [1..n -> {ChunkEntity(1, i, d) : i \in 0..MaxChunks, d \in ChunkPayloads}] :
            \A i, j \in 1..n : i # j => l[i].chunk_index # l[j].chunk_index} :
         n \in 0..MaxChunks}

InitReassemble ==
  /\ chunkSize = CHUNK_SIZE
  /\ storageImpl = "v1"
  /\ InitService
  /\ cpc = "chunked"
  /\ cbuf = <<>>
  /\ cchunks \in ChunkLists
  /\ cmeta = NoMeta
  /\ cout = <<>>
  /\ InitQuotaIdle
  /\ InitStoreIdle
  /\ InitRouteIdle
  /\ InitPrepIdle
  /\ InitReadIdle
  /\ InitTtlIdle

NextReassemble == CodecReassemble

SpecReassemble == InitReassemble /\ [][NextReassemble]_vars

(* ------------------------------------------------------------------ *)
(* checkQuota on its own: any usage record the ledger can hold (also   *)
(* one past either limit, and no record yet), any size.                *)
(* ------------------------------------------------------------------ *)
QuotaRecords ==
  {[used_bytes |-> b, max_bytes |-> FREE_TIER_MAX_BYTES,
    uploads_today |-> c, max_uploads_per_day |-> FREE_TIER_MAX_UPLOADS_PER_DAY] :
     b \in 0..FREE_TIER_MAX_BYTES + 1, c \in 0..FREE_TIER_MAX_UPLOADS_PER_DAY + 1}

QuotaSizes == 0..FREE_TIER_MAX_BYTES + 1

InitQuota ==
  /\ chunkSize = CHUNK_SIZE
  /\ storageImpl = "v1"
  /\ uploadSessions = EmptyMap
  /\ userUsage \in {EmptyMap} \cup {MapSet(EmptyMap, "u1", q) : q \in QuotaRecords}
  /\ chunkEntities = {}
  /\ metaEntities = {}
  /\ nextId = 1
  /\ req = [r \in Reqs |-> IdleReq]
  /\ calls = 0
  /\ faults = 0
  /\ uploaded = EmptyMap
  /\ chunkWritten = {}
  /\ chunkFailed = {}
  /\ metaWritten = {}
  /\ InitCodecIdle
  /\ InitQuotaIdle
  /\ InitStoreIdle
  /\ InitRouteIdle
  /\ InitPrepIdle
  /\ InitReadIdle
  /\ InitTtlIdle

\* quotaService.checkQuota(userId, fileSize): the decision, and the record
\* getUserQuota leaves in the Map for a user it had not seen
CheckQuotaCall(userId, fileSize) ==
  /\ qpc = "off"
  /\ qpc' = "checked"
  /\ quser' = userId
  /\ qsize' = fileSize
  /\ qusage' = userUsage
  /\ qres' = checkQuota(userUsage, userId, fileSize)
  /\ userUsage' = withUser(userUsage, userId)
  /\ UNCHANGED <<qres2, qusage2>>
  /\ UNCHANGED <<chunkSize, storageImpl, uploadSessions, chunkEntities,
                 metaEntities, nextId, req, calls, faults, uploaded,
                 chunkWritten, chunkFailed, metaWritten>>
  /\ UNCHANGED codecVars
  /\ UNCHANGED storeVars
  /\ UNCHANGED routeVars
  /\ UNCHANGED prepVars
  /\ UNCHANGED <<readVars, ttlVars>>

\* the same check made again at once
CheckQuotaAgain ==
  /\ qpc = "checked"
  /\ qpc' = "checked_twice"
  /\ qusage2' = userUsage
  /\ qres2' = checkQuota(userUsage, quser, qsize)
  /\ userUsage' = withUser(userUsage, quser)
  /\ UNCHANGED <<quser, qsize, qres, qusage>>
  /\ UNCHANGED <<chunkSize, storageImpl, uploadSessions, chunkEntities,
                 metaEntities, nextId, req, calls, faults, uploaded,
                 chunkWritten, chunkFailed, metaWritten>>
  /\ UNCHANGED codecVars
  /\ UNCHANGED storeVars
  /\ UNCHANGED routeVars
  /\ UNCHANGED prepVars
  /\ UNCHANGED <<readVars, ttlVars>>

NextQuota ==
  \/ \E u \in Users, n \in QuotaSizes : CheckQuotaCall(u, n)
  \/ CheckQuotaAgain

SpecQuota == InitQuota /\ [][NextQuota]_vars

(* ------------------------------------------------------------------ *)
(* storeChunk on its own, for the three stores of the repository:      *)
(* ArkivMemoryStorage (src/src/server.ts lines 175-248) and the two    *)
(* ArkivStorage classes.  A few calls with any of a few chunks.        *)
(* ------------------------------------------------------------------ *)
StoreKinds == Impls \cup {"memory"}

StoreChunks ==
  {ChunkEntity(m, i, d) : m \in {1, 2}, i \in {0, 1}, d \in {<<0>>, <<1>>}}

chunkKey(chunk) == <<chunk.media_id, chunk.chunk_index>>

\* ArkivMemoryStorage.storeChunk: the Map after the call and whether it threw
memoryStoreChunk(chunks, chunk) ==
  IF chunkKey(chunk) \in DOMAIN chunks
  THEN [chunks |-> chunks, threw |-> chunks[chunkKey(chunk)].checksum # chunk.checksum]
  ELSE [chunks |-> MapSet(chunks, chunkKey(chunk), chunk), threw |-> FALSE]

InitStore ==
  /\ chunkSize = CHUNK_SIZE
  /\ storageImpl \in StoreKinds
  /\ InitService
  /\ InitCodecIdle
  /\ InitQuotaIdle
  /\ InitStoreIdle
  /\ InitRouteIdle
  /\ InitPrepIdle
  /\ InitReadIdle
  /\ InitTtlIdle

storeCallFrame(chunk) ==
  /\ scalls < MaxStoreCalls
  /\ scalls' = scalls + 1
  /\ scall' = chunk
  /\ sprevC' = chunkEntities
  /\ sprevM' = mchunks
  /\ UNCHANGED <<chunkSize, storageImpl, uploadSessions, userUsage, metaEntities,
                 nextId, req, calls, faults, uploaded, chunkWritten, chunkFailed,
                 metaWritten>>
  /\ UNCHANGED codecVars
  /\ UNCHANGED quotaVars
  /\ UNCHANGED routeVars
  /\ UNCHANGED prepVars
  /\ UNCHANGED <<readVars, ttlVars>>

\* storage.storeChunk(chunk) returned or threw its own error
StoreLayerCall(chunk) ==
  /\ storeCallFrame(chunk)
  /\ IF storageImpl = "memory"
     THEN /\ mchunks' = memoryStoreChunk(mchunks, chunk).chunks
          /\ sres' = IF memoryStoreChunk(mchunks, chunk).threw THEN "corruption" ELSE "ok"
          /\ UNCHANGED chunkEntities
     ELSE /\ chunkEntities' = storeChunk(storageImpl, chunkEntities, chunk)
          /\ sres' = "ok"
          /\ UNCHANGED mchunks

\* ArkivStorage.storeChunk: createEntity failed, the error is thrown on
StoreLayerCallRejected(chunk) ==
  /\ storeCallFrame(chunk)
  /\ storageImpl # "memory"
  /\ sres' = "rpc_error"
  /\ UNCHANGED <<chunkEntities, mchunks>>

NextStore ==
  \/ \E chunk \in StoreChunks : StoreLayerCall(chunk)
  \/ \E chunk \in StoreChunks : StoreLayerCallRejected(chunk)

SpecStore == InitStore /\ [][NextStore]_vars

(* ------------------------------------------------------------------ *)
(* POST /media (server.ts lines 28-64): HTTP requests answered one at  *)
(* a time, each either without a file field, with a body that cannot   *)
(* be read, or with a file that goes to initiateUpload.                *)
(* ------------------------------------------------------------------ *)
\* c.json({ error }, status)
uploadError(status, error) == [NoResponse EXCEPT !.status = status, !.error = error]

\* a route that answers every failure of initiateUpload as a server error
uploadRoute_serverError(result) ==
  IF ~result.success
  THEN uploadError(500, result.error)
  ELSE [NoResponse EXCEPT !.status = 200, !.media_id = result.media_id,
                          !.message = "Upload successful"]

\* lines 51-58: what the route makes of the result of initiateUpload
uploadRoute(result) ==
  IF ~result.success
  THEN uploadError(400, result.error)
  ELSE [NoResponse EXCEPT !.status = 200, !.media_id = result.media_id,
                          !.message = "Upload successful"]

routeFrame ==
  /\ UNCHANGED <<chunkSize, storageImpl, uploadSessions, userUsage, chunkEntities,
                 metaEntities, nextId, calls, faults, uploaded, chunkWritten,
                 chunkFailed, metaWritten>>
  /\ UNCHANGED codecVars
  /\ UNCHANGED quotaVars
  /\ UNCHANGED storeVars
  /\ UNCHANGED prepVars
  /\ UNCHANGED <<readVars, ttlVars>>

\* lines 35-37: formData.get('file') is null
PostMediaNoFile ==
  /\ NoneInFlight
  /\ http' = [kind |-> "no_file", result |-> NoResult,
              response |-> uploadError(400, "No file provided")]
  /\ UNCHANGED <<req, served, serverUsage>>
  /\ routeFrame

\* lines 30, 39, 59-63: formData() or arrayBuffer() rejected; the catch answers
PostMediaThrows ==
  /\ NoneInFlight
  /\ http' = [kind |-> "throw", result |-> NoResult,
              response |-> uploadError(500, "Internal server error")]
  /\ UNCHANGED <<req, served, serverUsage>>
  /\ routeFrame

\* lines 42-58: initiateUpload returned; the route answers
PostMediaRespond(r) ==
  /\ req[r].pc = "done"
  /\ req[r].op = "upload"
  /\ http' = [kind |-> "upload", result |-> req[r].result,
              response |-> uploadRoute(req[r].result)]
  /\ served' = Append(served,
                  [key |-> req[r].key, headerless |-> req[r].headerless,
                   user |-> req[r].user, file |-> req[r].file,
                   fresh |-> req[r].fresh,
                   response |-> uploadRoute(req[r].result),
                   usedBefore |-> req[r].usedBefore,
                   uploadsBefore |-> req[r].uploadsBefore,
                   usedAfter |-> usedBytes(userUsage, req[r].user),
                   uploadsAfter |-> uploadsToday(userUsage, req[r].user)])
  /\ req' = [req EXCEPT ![r] = IdleReq]
  /\ UNCHANGED serverUsage
  /\ routeFrame

NextRoute ==
  \/ PostMediaNoFile
  \/ PostMediaThrows
  \/ \E r \in Reqs, k \in NextKeys, u \in NextUsers, f \in AllFiles :
       NoneInFlight /\ InitiateUploadCall(r, k, u, f)
  \/ \E r \in Reqs : QuotaDenied(r)
  \/ \E r \in Reqs : ExistingSessionReturn(r)
  \/ \E r \in Reqs : BeginUpload(r)
  \/ \E r \in Reqs : StoreChunkOk(r)
  \/ \E r \in Reqs : StoreChunkFail(r)
  \/ \E r \in Reqs : StoreMetadataOk(r)
  \/ \E r \in Reqs : StoreMetadataFail(r)
  \/ \E r \in Reqs : UploadReturn(r)
  \/ \E r \in Reqs : PostMediaRespond(r)

SpecRoute == Init /\ [][NextRoute]_vars

(* ------------------------------------------------------------------ *)
(* The server as a whole: POST /media with or without an               *)
(* Idempotency-Key header, one request at a time, and GET /quota,      *)
(* which asks the QuotaService that server.ts makes at line 23.        *)
(* ------------------------------------------------------------------ *)
\* the Idempotency-Key header as sent; "" is no header
Headers == {"", "k1"}

\* crypto.randomUUID(): a value never handed out before (the n-th request
\* gets the n-th of them)
UuidKeys == <<"uuid1", "uuid2", "uuid3", "uuid4">>

randomUUID(n) == UuidKeys[n]

\* a default that is the same for every request
defaultKey_fixed(header, uuid) == IF header # "" THEN header ELSE "default"

\* line 32: c.req.header('Idempotency-Key') || crypto.randomUUID()
defaultKey(header, uuid) == IF header # "" THEN header ELSE uuid

\* lines 28-49: a request with a file; the handler waits on initiateUpload
PostMediaCall(r, header, userId, file) ==
  /\ FreeSlot(r)
  /\ calls < Len(UuidKeys)
  /\ LET idempotencyKey == defaultKey(header, randomUUID(calls + 1))
     IN  initiateUpload(r, [IdleReq EXCEPT
                              !.op = "upload", !.key = idempotencyKey,
                              !.user = userId, !.file = file, !.attempt = 1,
                              !.headerless = (header = ""),
                              !.keyFresh = idempotencyKey \notin DOMAIN uploadSessions,
                              !.uploadsBefore = uploadsToday(userUsage, userId),
                              !.usedBefore = usedBytes(userUsage, userId)])
  /\ calls' = calls + 1
  /\ UNCHANGED <<uploadSessions, nextId, faults>>
  /\ storeUnchanged /\ historyUnchanged /\ configUnchanged

\* GET /quota, lines 99-116: getQuotaInfo of the server's own QuotaService
\* (usage_percentage is computed from used_bytes and max_bytes and left out)
GetQuotaRoute(userId) ==
  /\ NoneInFlight
  /\ serverUsage' = withUser(serverUsage, userId)
  /\ LET quota == getUserQuota(serverUsage, userId)
     IN  http' = [kind |-> "quota", result |-> NoResult, user |-> userId,
                  answered |-> Len(served),
                  response |-> [status |-> 200,
                                used_bytes |-> quota.used_bytes,
                                max_bytes |-> quota.max_bytes,
                                uploads_today |-> quota.uploads_today,
                                max_uploads_per_day |-> quota.max_uploads_per_day]]
  /\ UNCHANGED <<req, served>>
  /\ routeFrame

NextServer ==
  \/ \E r \in Reqs, header \in Headers, u \in NextUsers, f \in RacingFiles :
       NoneInFlight /\ PostMediaCall(r, header, u, f)
  \/ \E r \in Reqs : QuotaDenied(r)
  \/ \E r \in Reqs : ExistingSessionReturn(r)
  \/ \E r \in Reqs : BeginUpload(r)
  \/ \E r \in Reqs : StoreChunkOk(r)
  \/ \E r \in Reqs : StoreChunkFail(r)
  \/ \E r \in Reqs : StoreMetadataOk(r)
  \/ \E r \in Reqs : StoreMetadataFail(r)
  \/ \E r \in Reqs : UploadReturn(r)
  \/ \E r \in Reqs : PostMediaRespond(r)
  \/ \E u \in Users : GetQuotaRoute(u)

SpecServer == Init /\ [][NextServer]_vars


(* ------------------------------------------------------------------ *)
(* The admission steps of initiateUpload on their own (lines 19-57):   *)
(* one call, with a file of any length up to one past MAX_FILE_SIZE    *)
(* and any content type, made when the caller's usage is any record    *)
(* the ledger can hold and a session may exist for the key.            *)
(* ------------------------------------------------------------------ *)
ContentTypes == {"image/jpeg", "image/png", "image/gif", "text/plain"}

ValidationFiles ==
  {[buf |-> [i \in 1..n |-> 0], ctype |-> t] : n \in 0..MAX_FILE_SIZE + 1, t \in ContentTypes}

\* usage records of a user: bytes are charged only together with an upload
ChargedRecords == {q \in QuotaRecords : q.used_bytes > 0 => q.uploads_today > 0}

\* the service after user u2 has uploaded one byte under key k1
InitAfterUpload ==
  LET buf      == <<1>>
      metadata == createMetadata(1, "image/jpeg", buf)
  IN  /\ uploadSessions =
           MapSet(EmptyMap, "k1",
                  [media_id |-> 1, idempotency_key |-> "k1", metadata |-> metadata,
                   chunks_received |-> {0}, completed |-> TRUE])
      /\ userUsage \in
           {MapSet(EmptyMap, "u2", updateUsage(EmptyMap, "u2", 1)["u2"])} \cup
           {MapSet(MapSet(EmptyMap, "u2", updateUsage(EmptyMap, "u2", 1)["u2"]), "u1", q) :
              q \in ChargedRecords}
      /\ chunkEntities = {chunkEntityOf(storageImpl, chunkFile(buf, 1)[1])}
      /\ metaEntities = {metaEntityOf(metadata)}
      /\ nextId = 2
      /\ uploaded = MapSet(EmptyMap, 1, [user |-> "u2", buf |-> buf, key |-> "k1"])
      /\ chunkWritten = {<<1, 0>>}
      /\ metaWritten = {1}

InitNoUpload ==
  /\ uploadSessions = EmptyMap
  /\ userUsage = EmptyMap
  /\ chunkEntities = {}
  /\ metaEntities = {}
  /\ nextId = 1
  /\ uploaded = EmptyMap
  /\ chunkWritten = {}
  /\ metaWritten = {}

InitValidate ==
  /\ chunkSize = CHUNK_SIZE
  /\ storageImpl \in Impls
  /\ (InitNoUpload \/ InitAfterUpload)
  /\ req = [r \in Reqs |-> IdleReq]
  /\ calls = 0
  /\ faults = 0
  /\ chunkFailed = {}
  /\ InitCodecIdle
  /\ InitQuotaIdle
  /\ InitStoreIdle
  /\ InitRouteIdle
  /\ InitPrepIdle
  /\ InitReadIdle
  /\ InitTtlIdle

NextValidate ==
  \/ \E r \in Reqs, k \in Keys, u \in Users, f \in ValidationFiles :
       NoneInFlight /\ InitiateUploadCall(r, k, u, f)
  \/ \E r \in Reqs : QuotaDenied(r)
  \/ \E r \in Reqs : ExistingSessionReturn(r)
  \/ \E r \in Reqs : BeginUpload(r)

SpecValidate == InitValidate /\ [][NextValidate]_vars

(* ------------------------------------------------------------------ *)
(* getAllChunks of the in-memory and the RPC store, on a store filled  *)
(* through its own storeChunk and storeMetadata.  The chunk records    *)
(* are those chunkFile makes: each has an id of its own.               *)
(* ------------------------------------------------------------------ *)
\* ArkivMemoryStorage.currentBlock (1000000 in the source, scaled)
currentBlock == 1

ReadKinds == {"memory", "rpc"}

Expiries == {1, 2, 3}

ReadChunks ==
  {[id |-> id, media_id |-> 1, chunk_index |-> i, data |-> <<0>>,
    checksum |-> calculateChecksum(<<0>>), expiration_block |-> x] :
     id \in {"a", "b"}, i \in {0, 1}, x \in Expiries}

ReadMetas ==
  {[media_id |-> 1, chunk_count |-> n, expiration_block |-> x] :
     n \in 0..2, x \in Expiries}

MapDel(m, k) == [x \in (DOMAIN m) \ {k} |-> m[x]]

InitRead ==
  /\ chunkSize = CHUNK_SIZE
  /\ storageImpl \in ReadKinds
  /\ InitService
  /\ InitCodecIdle
  /\ InitQuotaIdle
  /\ InitStoreIdle
  /\ InitRouteIdle
  /\ InitPrepIdle
  /\ InitTtlIdle
  /\ rblock = currentBlock
  /\ rchunks = EmptyMap
  /\ rentities = EmptyMap
  /\ rmeta = EmptyMap
  /\ rcalls = 0
  /\ rhist = EmptyMap
  /\ rread = NoRead

readFrame ==
  /\ UNCHANGED <<chunkSize>>
  /\ UNCHANGED sysVars
  /\ UNCHANGED codecVars
  /\ UNCHANGED quotaVars
  /\ UNCHANGED storeVars
  /\ UNCHANGED routeVars
  /\ UNCHANGED prepVars
  /\ UNCHANGED ttlVars

\* a getMetadata that still returns a record at its expiration block
memoryGetMetadata_exclusive(metadata, block, media_id) ==
  IF media_id \notin DOMAIN metadata
  THEN [found |-> FALSE, meta |-> NoStoredMeta, metadata |-> metadata]
  ELSE IF metadata[media_id].expiration_block < block
       THEN [found |-> FALSE, meta |-> NoStoredMeta,
             metadata |-> MapDel(metadata, media_id)]
       ELSE [found |-> TRUE, meta |-> metadata[media_id], metadata |-> metadata]

\* ArkivMemoryStorage.getMetadata: the metadata found and the Map left
memoryGetMetadata(metadata, block, media_id) ==
  IF media_id \notin DOMAIN metadata
  THEN [found |-> FALSE, meta |-> NoStoredMeta, metadata |-> metadata]
  ELSE IF metadata[media_id].expiration_block <= block
       THEN [found |-> FALSE, meta |-> NoStoredMeta,
             metadata |-> MapDel(metadata, media_id)]
       ELSE [found |-> TRUE, meta |-> metadata[media_id], metadata |-> metadata]

\* the loop of ArkivMemoryStorage.getAllChunks over getChunk(media_id, i)
RECURSIVE memoryChunkLoop(_, _, _, _, _, _)
memoryChunkLoop(chunks, block, media_id, i, chunk_count, acc) ==
  IF i >= chunk_count THEN [list |-> acc, chunks |-> chunks]
  ELSE IF <<media_id, i>> \notin DOMAIN chunks
       THEN [list |-> <<>>, chunks |-> chunks]
       ELSE IF chunks[<<media_id, i>>].expiration_block <= block
            THEN [list |-> <<>>, chunks |-> MapDel(chunks, <<media_id, i>>)]
            ELSE memoryChunkLoop(chunks, block, media_id, i + 1, chunk_count,
                                 Append(acc, chunks[<<media_id, i>>]))

\* the query result of arkiv_queryEntities, sorted by metadata.chunk_index
RECURSIVE queryEntities(_)
queryEntities(es) ==
  IF es = {} THEN <<>>
  ELSE LET e == CHOOSE x \in es :
                  \A y \in es : x.chunk_index <= y.chunk_index
       IN  <<e>> \o queryEntities(es \ {e})

\* storeChunk(chunk) on either store; the memory store keeps the first
\* chunk of a key, the RPC store puts the entity under chunk.id
ReadStoreChunk(chunk) ==
  /\ rcalls < MaxStoreCalls
  /\ rcalls' = rcalls + 1
  /\ IF storageImpl = "memory"
     THEN /\ rchunks' = memoryStoreChunk(rchunks, chunk).chunks
          /\ UNCHANGED rentities
     ELSE /\ rentities' = MapSet(rentities, chunk.id, chunk)
          /\ UNCHANGED rchunks
  /\ UNCHANGED <<storageImpl, rblock, rmeta, rhist, rread>>
  /\ readFrame

\* storeMetadata(metadata) on either store
ReadStoreMetadata(metadata) ==
  /\ rcalls < MaxStoreCalls
  /\ rcalls' = rcalls + 1
  /\ rmeta' = MapSet(rmeta, metadata.media_id, metadata)
  /\ UNCHANGED <<storageImpl, rblock, rchunks, rentities, rhist, rread>>
  /\ readFrame

\* the chain produces a block; the mock block of the memory store stands
BlockAdvance ==
  /\ storageImpl = "rpc"
  /\ rblock < MaxBlock
  /\ rblock' = rblock + 1
  /\ UNCHANGED <<storageImpl, rchunks, rentities, rmeta, rcalls, rhist, rread>>
  /\ readFrame

\* ArkivMemoryStorage.getAllChunks(media_id)
MemoryGetAllChunks(media_id) ==
  /\ storageImpl = "memory"
  /\ rread.pc \in {"idle", "done"}
  /\ LET m == memoryGetMetadata(rmeta, rblock, media_id)
         l == memoryChunkLoop(rchunks, rblock, media_id, 0, m.meta.chunk_count, <<>>)
     IN  /\ rmeta' = m.metadata
         /\ rchunks' = IF m.found THEN l.chunks ELSE rchunks
         /\ rread' = [pc |-> "done", media_id |-> media_id, meta |-> m.meta,
                      pending |-> <<>>,
                      chunks |-> IF m.found THEN l.list ELSE <<>>,
                      block0 |-> rblock]
  /\ UNCHANGED <<storageImpl, rblock, rentities, rcalls, rhist>>
  /\ readFrame

\* ArkivRpcStorage.getAllChunks, up to `if (!meta) return []`
RpcGetMetadata(media_id) ==
  /\ storageImpl = "rpc"
  /\ rread.pc \in {"idle", "done"}
  /\ LET found == /\ media_id \in DOMAIN rmeta
                  /\ ~(rmeta[media_id].expiration_block <= rblock)
     IN  rread' = [pc |-> IF found THEN "query" ELSE "done",
                   media_id |-> media_id,
                   meta |-> IF found THEN rmeta[media_id] ELSE NoStoredMeta,
                   pending |-> <<>>, chunks |-> <<>>, block0 |-> rblock]
  /\ UNCHANGED <<storageImpl, rblock, rchunks, rentities, rmeta, rcalls, rhist>>
  /\ readFrame

\* arkiv_queryEntities answers with the chunk entities of media_id
RpcQuery ==
  /\ rread.pc = "query"
  /\ rread' = [rread EXCEPT
                 !.pc = "filter",
                 !.pending = queryEntities({rentities[id] : id \in
                               {k \in DOMAIN rentities :
                                  rentities[k].media_id = rread.media_id}})]
  /\ UNCHANGED <<storageImpl, rblock, rchunks, rentities, rmeta, rcalls, rhist>>
  /\ readFrame

\* the request fails or answers with an error: the catch returns []
RpcQueryFails ==
  /\ rread.pc = "query"
  /\ rread' = [rread EXCEPT !.pc = "done", !.chunks = <<>>]
  /\ UNCHANGED <<storageImpl, rblock, rchunks, rentities, rmeta, rcalls, rhist>>
  /\ readFrame

\* one round of the loop: the entity is dropped when expired at the
\* block getCurrentBlock() answers now
RpcFilter ==
  /\ rread.pc = "filter"
  /\ rread.pending # <<>>
  /\ LET entity == Head(rread.pending)
     IN  rread' = [rread EXCEPT
                     !.pending = Tail(rread.pending),
                     !.chunks = IF entity.expiration_block <= rblock
                                THEN rread.chunks
                                ELSE Append(rread.chunks, entity)]
  /\ UNCHANGED <<storageImpl, rblock, rchunks, rentities, rmeta, rcalls, rhist>>
  /\ readFrame

\* after the loop: sort, compare the count, return
RpcReturn ==
  /\ rread.pc = "filter"
  /\ rread.pending = <<>>
  /\ LET chunks == sortByIndex(rread.chunks)
     IN  rread' = [rread EXCEPT
                     !.pc = "done",
                     !.chunks = IF Len(chunks) # rread.meta.chunk_count
                                THEN <<>> ELSE chunks]
  /\ UNCHANGED <<storageImpl, rblock, rchunks, rentities, rmeta, rcalls, rhist>>
  /\ readFrame

NextRead ==
  \/ \E chunk \in ReadChunks : ReadStoreChunk(chunk)
  \/ \E metadata \in ReadMetas : ReadStoreMetadata(metadata)
  \/ BlockAdvance
  \/ MemoryGetAllChunks(1)
  \/ RpcGetMetadata(1)
  \/ RpcQuery
  \/ RpcQueryFails
  \/ RpcFilter
  \/ RpcReturn

SpecRead == InitRead /\ [][NextRead]_vars

(* ------------------------------------------------------------------ *)
(* getMedia over the in-memory store.  The store is filled by uploads, *)
(* each under a media id of its own, chunks first and metadata last;   *)
(* the mock block stands, so a record is expired when its upload asked *)
(* for no days or fewer.                                               *)
(* ------------------------------------------------------------------ *)
ExpireBtlDays == {-1, 0, 1}

ExpireFiles == {<<0>>, <<0, 1, 1>>}

MediaIds == 1..MaxCalls

InitExpire ==
  /\ chunkSize = CHUNK_SIZE
  /\ storageImpl = "memory"
  /\ InitService
  /\ InitCodecIdle
  /\ InitQuotaIdle
  /\ InitStoreIdle
  /\ InitRouteIdle
  /\ InitPrepIdle
  /\ InitTtlIdle
  /\ rblock = currentBlock
  /\ rchunks = EmptyMap
  /\ rentities = EmptyMap
  /\ rmeta = EmptyMap
  /\ rcalls = 0
  /\ rhist = EmptyMap
  /\ rread = NoRead

\* upload.ts lines 37-59 on the memory store: a fresh media id, one
\* expiration block, the records of the upload
ExpireUploadBegin(fileBuffer, btlDays) ==
  /\ Cardinality(DOMAIN rhist) < MaxCalls
  /\ \A m \in DOMAIN rhist : rhist[m].stored
  /\ LET media_id == Cardinality(DOMAIN rhist) + 1
         expiration_block == calculateExpirationBlock(rblock, btlDays)
     IN  rhist' = MapSet(rhist, media_id,
                    [expiration_block |-> expiration_block,
                     pending |-> chunkFileAt(fileBuffer, media_id, expiration_block, 0, 0),
                     metadata |-> createMetadataAt(media_id, "image/png", fileBuffer,
                                                   btlDays, expiration_block, 0),
                     stored |-> FALSE, gone |-> FALSE])
  /\ UNCHANGED <<storageImpl, rblock, rchunks, rentities, rmeta, rcalls, rread>>
  /\ readFrame

\* upload.ts lines 62-63: the next chunk goes to storeChunk
ExpireStoreChunk(media_id) ==
  /\ media_id \in DOMAIN rhist
  /\ rhist[media_id].pending # <<>>
  /\ rchunks' = memoryStoreChunk(rchunks, Head(rhist[media_id].pending)).chunks
  /\ rhist' = [rhist EXCEPT ![media_id].pending = Tail(@)]
  /\ UNCHANGED <<storageImpl, rblock, rentities, rmeta, rcalls, rread>>
  /\ readFrame

\* upload.ts line 67: the metadata goes to storeMetadata
ExpireStoreMetadata(media_id) ==
  /\ media_id \in DOMAIN rhist
  /\ rhist[media_id].pending = <<>>
  /\ ~rhist[media_id].stored
  /\ rmeta' = MapSet(rmeta, media_id, rhist[media_id].metadata)
  /\ rhist' = [rhist EXCEPT ![media_id].stored = TRUE]
  /\ UNCHANGED <<storageImpl, rblock, rchunks, rentities, rcalls, rread>>
  /\ readFrame

\* getMedia lines 80-83: getMetadata answered
MemoryGetMediaCall(media_id) ==
  /\ rread.pc \in {"idle", "done"}
  /\ LET m == memoryGetMetadata(rmeta, rblock, media_id)
         expired == media_id \in DOMAIN rmeta /\ ~m.found
     IN  /\ rmeta' = m.metadata
         /\ rread' = [pc |-> IF m.found THEN "get_chunks" ELSE "done",
                      media_id |-> media_id,
                      meta |-> m.meta,
                      wasGone |-> media_id \in DOMAIN rhist /\ rhist[media_id].gone,
                      result |-> IF m.found THEN NoResult ELSE Failure(ErrNotFound)]
         /\ rhist' = IF expired /\ media_id \in DOMAIN rhist
                     THEN [rhist EXCEPT ![media_id].gone = TRUE]
                     ELSE rhist
  /\ UNCHANGED <<storageImpl, rblock, rchunks, rentities, rcalls>>
  /\ readFrame

\* getMedia lines 85-107: getAllChunks answered; reassembly, integrity check
MemoryGetMediaChunks ==
  /\ rread.pc = "get_chunks"
  /\ LET m == memoryGetMetadata(rmeta, rblock, rread.media_id)
         l == memoryChunkLoop(rchunks, rblock, rread.media_id, 0,
                              m.meta.chunk_count, <<>>)
         chunks == IF m.found THEN l.list ELSE <<>>
         reassembledBuffer == reassembleFile(chunks)
     IN  /\ rmeta' = m.metadata
         /\ rchunks' = IF m.found THEN l.chunks ELSE rchunks
         /\ rread' = [rread EXCEPT
                        !.pc = "done",
                        !.result =
                          IF Len(chunks) = 0 THEN Failure(ErrIncomplete)
                          ELSE IF ~validateFileIntegrity(rread.meta.checksum,
                                                         reassembledBuffer)
                               THEN Failure(ErrIntegrity)
                               ELSE MediaSuccess(reassembledBuffer, rread.meta)]
  /\ UNCHANGED <<storageImpl, rblock, rentities, rcalls, rhist>>
  /\ readFrame

NextExpire ==
  \/ \E fileBuffer \in ExpireFiles, btlDays \in ExpireBtlDays :
       ExpireUploadBegin(fileBuffer, btlDays)
  \/ \E media_id \in MediaIds : ExpireStoreChunk(media_id)
  \/ \E media_id \in MediaIds : ExpireStoreMetadata(media_id)
  \/ \E media_id \in MediaIds : MemoryGetMediaCall(media_id)
  \/ MemoryGetMediaChunks

SpecExpire == InitExpire /\ [][NextExpire]_vars




(* ================================================================== *)
(* Properties                                                          *)
(* ================================================================== *)
UploadDone(r) == req[r].op = "upload" /\ req[r].pc = "done"

GetDone(r) == req[r].op = "get" /\ req[r].pc = "done"

\* n = ceil(len / size), said without division
IsCeil(n, len, size) == n * size >= len /\ (n = 0 \/ (n - 1) * size < len)

\* the 0-based index a stored chunk entity was written for
writtenIndex(e) ==
  IF e.chunk_index.t = "string" THEN e.chunk_index.v ELSE e.chunk_index.v - 1

\* C1: Idempotent upload.  When a call of initiateUpload under a fresh key
\* has returned success and the client at once calls again with the same
\* key, file and user (no other call in between), the second call returns
\* success with the same media_id and the user's uploads_today has grown by
\* exactly 1 over the two calls.
IdempotentUpload ==
  \A r \in Reqs :
    (UploadDone(r) /\ req[r].attempt = 2 /\ req[r].first.success /\ req[r].firstFresh)
      => /\ req[r].result.success
         /\ req[r].result.media_id = req[r].first.media_id
         /\ uploadsToday(userUsage, req[r].user) = req[r].uploadsBefore + 1

\* C2: Idempotent-replay frame.  The step of initiateUpload that finds a
\* session for its key returns that session's media_id and changes nothing
\* else: no entity is written, the session map (chunks_received, completed)
\* and every quota record stay as they are.
ReplayFinds(r) ==
  /\ req[r].pc = "await_quota"
  /\ req[r].quotaCheck.allowed
  /\ req[r].key \in DOMAIN uploadSessions

ReplayFrameStep ==
  \A r \in Reqs :
    (ReplayFinds(r) /\ req'[r].pc # "await_quota")
      => /\ req'[r].pc = "done"
         /\ req'[r].result = UploadSuccess(uploadSessions[req[r].key].media_id)
         /\ UNCHANGED <<uploadSessions, userUsage, chunkEntities, metaEntities,
                        chunkWritten, metaWritten, nextId>>

completedBy(u) == {m \in metaWritten : uploaded[m].user = u}

RECURSIVE sumBytes(_)
sumBytes(ms) ==
  IF ms = {} THEN 0
  ELSE LET m == CHOOSE x \in ms : TRUE
       IN  Len(uploaded[m].buf) + sumBytes(ms \ {m})

AccountingInv ==
  \A u \in Users :
    /\ uploadsToday(userUsage, u) = Cardinality(completedBy(u))
    /\ usedBytes(userUsage, u) = sumBytes(completedBy(u))

NonDecreasing ==
  \A u \in Users :
    /\ uploadsToday(userUsage', u) >= uploadsToday(userUsage, u)
    /\ usedBytes(userUsage', u) >= usedBytes(userUsage, u)

QuotaAccounting == []AccountingInv /\ [][NonDecreasing]_vars

\* C3 witness: a user has been charged for one upload while another upload
\* of the same user failed part-way
QuotaAccountingWitness ==
  /\ uploadsToday(userUsage, "u1") = 1
  /\ usedBytes(userUsage, "u1") = 3
  /\ \E m \in chunkFailed : uploaded[m].user = "u1"

\* C4: Write-after-chunks.  Whenever the metadata of a media_id has been
\* written, every chunk 0..chunk_count-1 of that upload has been written
\* (so was written before it), and none of its chunk writes failed.
WriteAfterChunks ==
  \A m \in metaWritten :
    /\ \A i \in 0..(Len(uploaded[m].buf) - 1) \div chunkSize :
         <<m, i>> \in chunkWritten
    /\ m \notin chunkFailed

\* C4 witness: the metadata of a two-chunk upload has been written
WriteAfterChunksWitness ==
  \E m \in metaWritten : Len(uploaded[m].buf) = 3 /\ <<m, 1>> \in chunkWritten

\* C5: getMedia never serves partial or corrupted data.  Every success of
\* getMedia carries a buffer whose checksum is the checksum of the
\* metadata read from the store, and which is the uploaded buffer.
NeverServesBadData ==
  \A r \in Reqs :
    (GetDone(r) /\ req[r].result.success)
      => /\ req[r].result.has_buffer
         /\ calculateChecksum(req[r].result.buffer) = req[r].metadata.checksum
         /\ req[r].media_id \in DOMAIN uploaded
         /\ req[r].result.buffer = uploaded[req[r].media_id].buf

\* C5 witness: getMedia has succeeded with the three bytes of a two-chunk
\* upload
NeverServesBadDataWitness ==
  \E r \in Reqs :
    /\ GetDone(r) /\ req[r].result.success /\ storageImpl = "v1"
    /\ Len(req[r].result.buffer) = 3

\* C6: Incomplete detection.  For a completed upload with chunk_count >= 1
\* whose metadata was read, if one of its chunks is missing from what the
\* store returned, getMedia returns the incomplete failure.
ChunkMissing(r) ==
  \E i \in 0..req[r].metadata.chunk_count - 1 :
    \A e \in req[r].seen : writtenIndex(e) # i

ReadAnswered(r) ==
  GetDone(r) /\ ~req[r].readFailed /\ req[r].metadata # NoMeta

IncompleteDetection ==
  \A r \in Reqs :
    (/\ ReadAnswered(r)
     /\ req[r].media_id \in metaWritten
     /\ req[r].metadata.chunk_count >= 1
     /\ ChunkMissing(r))
      => req[r].result = Failure(ErrIncomplete)

\* C7: Integrity detection.  If the chunks the store returned are one per
\* index 0..chunk_count-1 but the bytes of one differ from what was
\* written, getMedia returns the integrity failure and no buffer.
originalChunk(m, i) ==
  subarray(uploaded[m].buf, i * chunkSize, (i + 1) * chunkSize)

IndicesConsistent(r) ==
  /\ Cardinality(req[r].seen) = req[r].metadata.chunk_count
  /\ \A i \in 0..req[r].metadata.chunk_count - 1 :
       \E e \in req[r].seen : writtenIndex(e) = i

AlteredChunk(r) ==
  \E e \in req[r].seen : e.payload # originalChunk(req[r].media_id, writtenIndex(e))

IntegrityDetection ==
  \A r \in Reqs :
    (ReadAnswered(r) /\ IndicesConsistent(r) /\ AlteredChunk(r))
      => (req[r].result = Failure(ErrIntegrity) /\ ~req[r].result.has_buffer)

\* C7 witness: a getMedia has read two chunks, one of them altered
IntegrityDetectionWitness ==
  \E r \in Reqs :
    /\ ReadAnswered(r) /\ IndicesConsistent(r) /\ AlteredChunk(r)
    /\ req[r].metadata.chunk_count = 2

\* C8: Codec round-trip.  For every buffer B with 0 < len(B) <= MAX_FILE_SIZE,
\* reassembleFile(chunkFile(B)) is B.
RoundTrip ==
  (cpc = "reassembled" /\ 0 < Len(cbuf) /\ Len(cbuf) <= MAX_FILE_SIZE)
    => cout = cbuf

\* C8 witness: a three-byte buffer cut into two chunks has been reassembled
RoundTripWitness ==
  cpc = "reassembled" /\ Len(cbuf) = 3 /\ Len(cchunks) = 2 /\ chunkSize = 2

\* C9: Chunk count and sizes.  chunkFile(B) has ceil(len(B)/C) chunks, the
\* chunk_count of createMetadata; chunk i has chunk_index i (from 0); every
\* chunk but the last has C bytes and the last has between 1 and C.
ChunkCountAndSizes ==
  cpc \in {"chunked", "reassembled"}
    => /\ IsCeil(Len(cchunks), Len(cbuf), chunkSize)
       /\ cmeta.chunk_count = Len(cchunks)
       /\ \A i \in 1..Len(cchunks) :
            /\ cchunks[i].chunk_index = i - 1
            /\ i < Len(cchunks) => Len(cchunks[i].data) = chunkSize
            /\ i = Len(cchunks) => /\ Len(cchunks[i].data) >= 1
                                   /\ Len(cchunks[i].data) <= chunkSize

\* C9 witness: a buffer chunked into two full chunks and a shorter third
ChunkCountAndSizesWitness ==
  /\ cpc = "chunked" /\ Len(cchunks) = 3 /\ chunkSize = 2
  /\ Len(cchunks[3].data) = 1

\* C10: End-to-end round-trip.  With one call at a time: a first call of
\* initiateUpload that made a new upload and returned success has raised
\* the uploader's used_bytes by len(B); and a getMedia of a completed
\* upload of a non-empty B, the store having kept and returned every
\* record unchanged, returns success with B and with metadata whose
\* file_size is len(B) and chunk_count is ceil(len(B)/CHUNK_SIZE).
EndToEnd ==
  \A r \in Reqs :
    /\ (UploadDone(r) /\ req[r].attempt = 1 /\ req[r].fresh /\ req[r].result.success)
         => usedBytes(userUsage, req[r].user)
              = req[r].usedBefore + Len(req[r].file.buf)
    /\ (/\ GetDone(r) /\ ~req[r].readFailed /\ faults = 0
        /\ req[r].media_id \in metaWritten
        /\ Len(uploaded[req[r].media_id].buf) > 0)
         => /\ req[r].result.success
            /\ req[r].result.buffer = uploaded[req[r].media_id].buf
            /\ req[r].result.metadata.file_size = Len(uploaded[req[r].media_id].buf)
            /\ IsCeil(req[r].result.metadata.chunk_count,
                      Len(uploaded[req[r].media_id].buf), CHUNK_SIZE)

\* C10 witness: a two-chunk upload was read back through the store that
\* hands its payloads on as base64 text
EndToEndWitness ==
  \E r \in Reqs :
    /\ GetDone(r) /\ req[r].result.success /\ storageImpl = "v2"
    /\ req[r].result.metadata.chunk_count = 2
    /\ usedBytes(userUsage, uploaded[req[r].media_id].user) = 3

\* C11: Quota admission decision.  checkQuota(user, n) denies exactly when
\* used_bytes + n > max_bytes or uploads_today >= max_uploads_per_day; when
\* the byte test fails its reason is reported, whatever the count; a user
\* d bytes under max_bytes and under the daily count is allowed n exactly
\* when n <= d; a user at the daily count is denied every size.
QuotaDecision ==
  qpc = "checked" =>
    LET used   == usedBytes(qusage, quser)
        count  == uploadsToday(qusage, quser)
        overB  == used + qsize > FREE_TIER_MAX_BYTES
        overC  == count >= FREE_TIER_MAX_UPLOADS_PER_DAY
    IN  /\ qres.allowed <=> ~(overB \/ overC)
        /\ overB => qres.reason = ErrQuotaBytes
        /\ (~overB /\ overC) => qres.reason = ErrQuotaCount
        /\ \A d \in 0..FREE_TIER_MAX_BYTES :
             (used = FREE_TIER_MAX_BYTES - d /\ ~overC)
               => (qres.allowed <=> qsize <= d)
        /\ count = FREE_TIER_MAX_UPLOADS_PER_DAY => ~qres.allowed

\* C11 witness: both tests fail at once and the byte reason is reported
QuotaDecisionWitness ==
  /\ qpc = "checked"
  /\ usedBytes(qusage, quser) + qsize = FREE_TIER_MAX_BYTES + 1
  /\ uploadsToday(qusage, quser) = FREE_TIER_MAX_UPLOADS_PER_DAY
  /\ qres = [allowed |-> FALSE, reason |-> ErrQuotaBytes]

\* C12: Partial failure is not rolled back and not resumed.  Once storing
\* chunk k of an upload has failed: the failing call returns 'Upload failed';
\* the session stays registered under its key with chunks_received =
\* {0..k-1} and completed = false; no step of the service removes a chunk
\* written, and no chunk or metadata of that media_id is written any more;
\* a later initiateUpload with the same key that passes the size, type and
\* quota checks returns the same media_id, and one that does not pass
\* returns the rejection of the first check it fails.
writtenOf(cw, m) == {i \in 0..MaxLen : <<m, i>> \in cw}

FailedSession(key) ==
  /\ key \in DOMAIN uploadSessions
  /\ uploadSessions[key].media_id \in chunkFailed

SessionKept ==
  /\ \A m \in chunkFailed :
       /\ FailedSession(uploaded[m].key)
       /\ uploadSessions[uploaded[m].key].media_id = m
       /\ ~uploadSessions[uploaded[m].key].completed
       /\ uploadSessions[uploaded[m].key].chunks_received = writtenOf(chunkWritten, m)
       /\ writtenOf(chunkWritten, m) = 0..Cardinality(writtenOf(chunkWritten, m)) - 1
       /\ m \notin metaWritten
  /\ \A r \in Reqs :
       (UploadDone(r) /\ req[r].fresh /\ req[r].media_id \in chunkFailed)
         => req[r].result = Failure(ErrUpload)

LaterCall(r) == UploadDone(r) /\ ~req[r].fresh /\ FailedSession(req[r].key)

LaterCallAnswer(r) ==
  LET n == Len(req[r].file.buf)
      u == req[r].user
  IN  IF n > MAX_FILE_SIZE THEN Failure(ErrTooLarge)
      ELSE IF req[r].file.ctype \notin {"image/jpeg", "image/png"} THEN Failure(ErrType)
      ELSE IF usedBytes(userUsage, u) + n > FREE_TIER_MAX_BYTES
           THEN Failure(ErrQuotaBytes)
      ELSE IF uploadsToday(userUsage, u) >= FREE_TIER_MAX_UPLOADS_PER_DAY
           THEN Failure(ErrQuotaCount)
      ELSE UploadSuccess(uploadSessions[req[r].key].media_id)

NotResumedStep ==
  \A m \in chunkFailed :
    /\ writtenOf(chunkWritten', m) = writtenOf(chunkWritten, m)
    /\ m \notin metaWritten'
    /\ faults' = faults =>
         {e \in chunkEntities' : e.media_id = m} = {e \in chunkEntities : e.media_id = m}

RetriedAfterFailure(k) ==
  /\ FailedSession(k)
  /\ \E r \in Reqs : LaterCall(r) /\ req[r].key = k /\ req[r].result.success

SessionCompleted(k) ==
  /\ k \in DOMAIN uploadSessions
  /\ uploadSessions[k].completed
  /\ uploadSessions[k].media_id \in metaWritten

NoHandlerRunning == \A r \in Reqs : req[r].pc \in {"idle", "done"}

Resumable ==
  \A k \in Keys :
    (RetriedAfterFailure(k) /\ NoHandlerRunning) => SessionCompleted(k)

\* C14: Atomic session creation.  No key ever gets two media ids, and chunks
\* are written only for the media id of a key's one session.  Of two calls
\* of initiateUpload made with the same key while it had no session, both
\* admitted by the checks that precede the lookup, at most one creates the
\* session; the other, once returned, has returned the media_id the first
\* one generated.
PastLookup(r) ==
  /\ req[r].op = "upload"
  /\ req[r].keyFresh
  /\ req[r].quotaCheck.allowed
  /\ req[r].pc \notin {"idle", "await_quota"}

AtomicSessionCreation ==
  /\ \A m1, m2 \in DOMAIN uploaded :
       uploaded[m1].key = uploaded[m2].key => m1 = m2
  /\ \A m \in DOMAIN uploaded :
       /\ uploaded[m].key \in DOMAIN uploadSessions
       /\ uploadSessions[uploaded[m].key].media_id = m
  /\ \A w \in chunkWritten : w[1] \in DOMAIN uploaded
  /\ \A r, q \in Reqs :
       (r # q /\ PastLookup(r) /\ PastLookup(q) /\ req[r].key = req[q].key)
         => /\ ~(req[r].fresh /\ req[q].fresh)
            /\ (req[r].fresh /\ req[q].pc = "done")
                 => req[q].result = UploadSuccess(req[r].media_id)

\* C14 witness: two calls raced for a fresh key; one made the session and is
\* still writing, the other has returned the first one's media_id
AtomicSessionCreationWitness ==
  \E r, q \in Reqs :
    /\ r # q /\ PastLookup(r) /\ PastLookup(q) /\ req[r].key = req[q].key
    /\ req[r].fresh /\ req[r].pc = "store_chunk"
    /\ req[q].pc = "done" /\ req[q].result = UploadSuccess(req[r].media_id)

\* C15: Check-then-act quota race.  Two concurrent uploads of one user under
\* different keys can both pass checkQuota before either commits, and then
\* used_bytes > max_bytes (or uploads_today > max_uploads_per_day): the
\* state of the witness is reached.  And that is the only way there: every
\* upload that commits had passed its own check, and a commit takes a
\* counter over its limit only if another upload of the user committed
\* between this upload's check and its commit.
Commits(r) == req[r].pc = "store_meta" /\ req'[r].pc = "await_usage"

QuotaRaceStep ==
  \A r \in Reqs :
    Commits(r) =>
      LET u == req[r].user
          n == Len(req[r].file.buf)
      IN  /\ req[r].quotaCheck.allowed
          /\ req[r].usedBefore + n <= FREE_TIER_MAX_BYTES
          /\ req[r].uploadsBefore < FREE_TIER_MAX_UPLOADS_PER_DAY
          /\ usedBytes(userUsage', u) = usedBytes(userUsage, u) + n
          /\ uploadsToday(userUsage', u) = uploadsToday(userUsage, u) + 1
          /\ usedBytes(userUsage', u) > FREE_TIER_MAX_BYTES
               => usedBytes(userUsage, u) > req[r].usedBefore
          /\ uploadsToday(userUsage', u) > FREE_TIER_MAX_UPLOADS_PER_DAY
               => uploadsToday(userUsage, u) > req[r].uploadsBefore

QuotaRace == [][QuotaRaceStep]_vars

\* C15 witness: two uploads of one user under two keys are both charged and
\* the user's used_bytes is over max_bytes
QuotaRaceWitness ==
  \E u \in Users :
    /\ usedBytes(userUsage, u) > FREE_TIER_MAX_BYTES
    /\ \E m1, m2 \in metaWritten :
         /\ m1 # m2
         /\ uploaded[m1].user = u /\ uploaded[m2].user = u
         /\ uploaded[m1].key # uploaded[m2].key

\* C16: Session map stability.  A key has at most one session, filed under
\* its own idempotency_key; sessions of distinct keys carry distinct
\* media_ids; and a session, once there, is never removed or replaced: its
\* media_id, key and metadata stay what they were.
SessionsDistinct ==
  \A k1, k2 \in DOMAIN uploadSessions :
    /\ uploadSessions[k1].idempotency_key = k1
    /\ uploadSessions[k1].metadata.media_id = uploadSessions[k1].media_id
    /\ uploadSessions[k1].media_id = uploadSessions[k2].media_id => k1 = k2

SessionStays ==
  \A k \in DOMAIN uploadSessions :
    /\ k \in DOMAIN uploadSessions'
    /\ uploadSessions'[k].media_id = uploadSessions[k].media_id
    /\ uploadSessions'[k].idempotency_key = uploadSessions[k].idempotency_key
    /\ uploadSessions'[k].metadata = uploadSessions[k].metadata

SessionMapStability == []SessionsDistinct /\ [][SessionStays]_vars

\* C16 witness: two keys have a session each, one of them failed and one
\* completed
SessionMapStabilityWitness ==
  /\ DOMAIN uploadSessions = Keys
  /\ \E k \in Keys : uploadSessions[k].completed
  /\ \E k \in Keys : uploadSessions[k].media_id \in chunkFailed

\* C17: Validation and its order.  initiateUpload answers the file-too-large
\* error exactly when len(buffer) > MAX_FILE_SIZE; otherwise the
\* unsupported-type error exactly when the content type is neither
\* image/jpeg nor image/png; otherwise the reason of the quota check when it
\* denies (bytes before count); and only otherwise looks up the session of
\* the key: an existing one is answered with its media_id, and without one
\* a new session is made.
Admitted(r) == req[r].op = "upload" /\ req[r].pc \notin {"idle", "await_quota"}

ValidationOrder ==
  \A r \in Reqs :
    Admitted(r) =>
      LET n        == Len(req[r].file.buf)
          u        == req[r].user
          tooLarge == n > MAX_FILE_SIZE
          badType  == req[r].file.ctype \notin {"image/jpeg", "image/png"}
          overB    == usedBytes(userUsage, u) + n > FREE_TIER_MAX_BYTES
          overC    == uploadsToday(userUsage, u) >= FREE_TIER_MAX_UPLOADS_PER_DAY
      IN  IF tooLarge THEN req[r].result = Failure(ErrTooLarge)
          ELSE IF badType THEN req[r].result = Failure(ErrType)
          ELSE IF overB THEN req[r].result = Failure(ErrQuotaBytes)
          ELSE IF overC THEN req[r].result = Failure(ErrQuotaCount)
          ELSE IF ~req[r].keyFresh
               THEN /\ ~req[r].fresh
                    /\ req[r].result = UploadSuccess(uploadSessions[req[r].key].media_id)
               ELSE /\ req[r].fresh
                    /\ ~req[r].result.returned
                    /\ uploadSessions[req[r].key].media_id = req[r].media_id

\* C17 witness: a file of exactly MAX_FILE_SIZE bytes and a wrong type, from
\* a user over quota, under a key that has a session, is answered with the
\* type error
ValidationOrderWitness ==
  \E r \in Reqs :
    /\ Admitted(r)
    /\ Len(req[r].file.buf) = MAX_FILE_SIZE
    /\ usedBytes(userUsage, req[r].user) + MAX_FILE_SIZE > FREE_TIER_MAX_BYTES
    /\ req[r].key \in DOMAIN uploadSessions
    /\ req[r].result = Failure(ErrType)

\* C18: Stored chunk indices.  For every completed upload whose records the
\* store has kept as written, the chunk_index values that getAllChunks and
\* getChunkInfo return for its media_id are 0, 1, .., chunk_count-1, each
\* once and in this order.
indicesOf(list) == [i \in 1..Len(list) |-> list[i].chunk_index]

StoredChunkIndices ==
  \A m \in metaWritten :
    faults = 0 =>
      LET n == getMetadata(metaEntities, m).chunk_count
      IN  /\ indicesOf(getAllChunks(storageImpl, chunkEntities, m)) = [i \in 1..n |-> i - 1]
          /\ n > 0 =>
               indicesOf(getChunkInfo(storageImpl, metaEntities, chunkEntities, m).entities)
                 = [i \in 1..n |-> i - 1]

\* C19: storeChunk is idempotent at the store layer.  When the store holds
\* a record for (media_id, chunk_index), a storeChunk call the store accepts
\* for that key with the same checksum leaves the store as it was, and one
\* with a different checksum fails with the corruption error and leaves the
\* store as it was.
heldBefore ==
  IF storageImpl = "memory"
  THEN {sprevM[k] : k \in {x \in DOMAIN sprevM : x = chunkKey(scall)}}
  ELSE {[media_id |-> e.media_id, chunk_index |-> writtenIndex(e),
         data |-> e.payload, checksum |-> e.checksum] :
          e \in {x \in sprevC : <<x.media_id, writtenIndex(x)>> = chunkKey(scall)}}

StoreChunkIdempotent ==
  (sres \in {"ok", "corruption"} /\ heldBefore # {}) =>
    /\ chunkEntities = sprevC
    /\ mchunks = sprevM
    /\ sres = IF \A c \in heldBefore : c.checksum = scall.checksum
              THEN "ok" ELSE "corruption"

\* C20: GET /media/{media_id} status mapping.  The response is 404 when the
\* store holds no metadata for the id or a chunk of the media is missing
\* from what the store returned, 500 for every other failure (an integrity
\* failure among them), and on success the raw bytes of the upload with
\* Content-Type and Content-Length taken from the metadata.
MetadataAbsent(r) == GetDone(r) /\ ~req[r].readFailed /\ req[r].metadata = NoMeta

MediaIncomplete(r) == ReadAnswered(r) /\ ChunkMissing(r)

MetadataReadFailed(r) == req[r].readFailed /\ req[r].metadata = NoMeta

MediaStatusMapping ==
  \A r \in Reqs :
    (GetDone(r) /\ ~MetadataReadFailed(r)) =>
      LET response == mediaRoute(req[r].result)
      IN  IF MetadataAbsent(r) \/ MediaIncomplete(r)
          THEN response.status = 404
          ELSE IF ~req[r].result.success
               THEN response.status = 500
               ELSE /\ response.status = 200
                    /\ response.raw
                    /\ response.body = uploaded[req[r].media_id].buf
                    /\ response.content_type = req[r].metadata.content_type
                    /\ response.content_length = req[r].metadata.file_size

\* C21: POST /media status mapping.  A request without a file field is
\* answered 400 'No file provided' and the step that answers it touches no
\* upload state; a request with a file is answered 200 with the media_id and
\* a message when initiateUpload succeeded and 400 with its error when it was
\* rejected for size, type or quota; 500 is answered only when reading the
\* request threw.
RejectionErrors == {ErrTooLarge, ErrType, ErrQuotaBytes, ErrQuotaCount}

PostMediaAnswer ==
  /\ http.kind = "no_file" => http.response = uploadError(400, "No file provided")
  /\ (http.kind = "upload" /\ http.result.success) =>
       /\ http.response.status = 200
       /\ http.response.media_id = http.result.media_id
       /\ http.response.media_id \in DOMAIN uploaded
       /\ http.response.message = "Upload successful"
  /\ (http.kind = "upload" /\ http.result.error \in RejectionErrors) =>
       http.response = uploadError(400, http.result.error)
  /\ http.response.status = 500 => http.kind = "throw"

NoFileStep == (http'.kind = "no_file" /\ http' # http) => UNCHANGED sysVars

PostMediaStatus == []PostMediaAnswer /\ [][NoFileStep]_vars

\* C21 witness: a second upload was refused by the byte quota and answered
\* 400 after an upload that had been answered 200
PostMediaStatusWitness ==
  /\ http.kind = "upload"
  /\ http.result.error = ErrQuotaBytes
  /\ http.response.status = 400
  /\ metaWritten # {}

\* C22: every call terminates with a typed result.  A call of initiateUpload
\* or getMedia that waits on the store or on the quota service can always
\* take its next step when the awaited call returns or fails, every step
\* moves it strictly forward through a bounded course, and what it ends with
\* is a {success, ...} result, also when a chunk write, the metadata write
\* or a read failed.
Running(q) == q.pc \notin {"idle", "done"}

pcRank(pc) ==
  CASE pc \in {"await_quota", "get_meta"}    -> 1
    [] pc \in {"store_chunk", "get_chunks"}  -> 2
    [] pc = "store_meta"                     -> 3
    [] pc = "await_usage"                    -> 4
    [] pc = "done"                           -> 5
    [] OTHER                                 -> 0

rank(q) == pcRank(q.pc) * (MaxLen + 2) + q.idx

TypedResult(result) ==
  /\ result.returned
  /\ result.success => result.error = ""
  /\ ~result.success => (result.error # "" /\ ~result.has_buffer)

ReturnsTypedResult == \A r \in Reqs : req[r].pc = "done" => TypedResult(req[r].result)

\* the continuation of every awaited call is there for each way the call can
\* end (GetChunksOk has the guard of GetChunksFail and no other condition)
NoHandlerStuck ==
  \A r \in Reqs :
    /\ req[r].pc \in {"idle", "await_quota", "store_chunk", "store_meta",
                      "await_usage", "get_meta", "get_chunks", "done"}
    /\ req[r].pc = "await_quota" =>
         ENABLED (QuotaDenied(r) \/ ExistingSessionReturn(r) \/ BeginUpload(r))
    /\ req[r].pc = "store_chunk" =>
         (ENABLED StoreChunkOk(r)) /\ (ENABLED StoreChunkFail(r))
    /\ req[r].pc = "store_meta" =>
         (ENABLED StoreMetadataOk(r)) /\ (ENABLED StoreMetadataFail(r))
    /\ req[r].pc = "await_usage" => ENABLED UploadReturn(r)
    /\ req[r].pc = "get_meta" =>
         (ENABLED GetMetadataStep(r, TRUE)) /\ (ENABLED GetMetadataStep(r, FALSE))
    /\ req[r].pc = "get_chunks" => ENABLED GetChunksFail(r)

HandlerAdvances ==
  \A r \in Reqs :
    (Running(req[r]) /\ req'[r] # req[r]) =>
      /\ rank(req'[r]) > rank(req[r])
      /\ rank(req'[r]) <= 5 * (MaxLen + 2) + MaxLen + 1

CallsTerminate ==
  [](ReturnsTypedResult /\ NoHandlerStuck) /\ [][HandlerAdvances]_vars

\* C22 witness: an upload has returned its failure after the metadata write
\* was rejected, all its chunks being written
CallsTerminateWitness ==
  \E r \in Reqs :
    /\ UploadDone(r)
    /\ req[r].result = Failure(ErrUpload)
    /\ req[r].media_id \notin chunkFailed
    /\ req[r].metadata.chunk_count = 2

\* C23: completed implies durable.  In every reachable state a session with
\* completed = true has chunks_received = {0..chunk_count-1} and the write of
\* its metadata (and of each of its chunks) was acknowledged by the store;
\* for every session chunks_received is a subset of 0..chunk_count-1 that
\* only grows, and completed never goes back from true to false.
SessionIndices(key) == 0..uploadSessions[key].metadata.chunk_count - 1

CompletedDurable ==
  \A key \in DOMAIN uploadSessions :
    /\ uploadSessions[key].chunks_received \subseteq SessionIndices(key)
    /\ uploadSessions[key].completed =>
         /\ uploadSessions[key].chunks_received = SessionIndices(key)
         /\ uploadSessions[key].media_id \in metaWritten
         /\ \A i \in SessionIndices(key) :
              <<uploadSessions[key].media_id, i>> \in chunkWritten

SessionGrows ==
  \A key \in DOMAIN uploadSessions :
    /\ key \in DOMAIN uploadSessions'
    /\ uploadSessions[key].chunks_received \subseteq uploadSessions'[key].chunks_received
    /\ uploadSessions[key].completed => uploadSessions'[key].completed

CompletedImpliesDurable == []CompletedDurable /\ [][SessionGrows]_vars

\* C23 witness: a two-chunk upload is completed while another session has
\* received one chunk of two
CompletedImpliesDurableWitness ==
  \E k1, k2 \in DOMAIN uploadSessions :
    /\ uploadSessions[k1].completed
    /\ uploadSessions[k1].metadata.chunk_count = 2
    /\ ~uploadSessions[k2].completed
    /\ uploadSessions[k2].chunks_received = {0}
    /\ uploadSessions[k2].metadata.chunk_count = 2

\* C24: completed implies charged.  In every state another request can see
\* (every state between two uninterrupted stretches of code), each user's
\* uploads_today and used_bytes account for every completed session of that
\* user, and the step that sets completed is the step that commits the
\* session's bytes and its one upload to the quota.
completedSessions(u) ==
  {uploadSessions[k].media_id :
     k \in {x \in DOMAIN uploadSessions :
              uploadSessions[x].completed /\ uploaded[uploadSessions[x].media_id].user = u}}

ChargedForCompleted ==
  \A u \in Users :
    /\ uploadsToday(userUsage, u) = Cardinality(completedSessions(u))
    /\ usedBytes(userUsage, u) = sumBytes(completedSessions(u))

CompletionCharges ==
  \A k \in DOMAIN uploadSessions :
    (~uploadSessions[k].completed /\ uploadSessions'[k].completed) =>
      LET u == uploaded[uploadSessions[k].media_id].user
          n == uploadSessions[k].metadata.file_size
      IN  /\ uploadsToday(userUsage', u) = uploadsToday(userUsage, u) + 1
          /\ usedBytes(userUsage', u) = usedBytes(userUsage, u) + n

CompletedImpliesCharged == []ChargedForCompleted /\ [][CompletionCharges]_vars

\* C24 witness: a session is completed while its call has not returned yet
\* and another call is running
CompletedImpliesChargedWitness ==
  \E r, q \in Reqs :
    /\ req[r].pc = "await_usage"
    /\ uploadSessions[req[r].key].completed
    /\ req[q].op = "upload" /\ req[q].pc = "await_quota"
    /\ req[q].user = req[r].user

\* C25: rejected uploads change nothing.  The step by which initiateUpload
\* returns a rejection for size, content type or quota leaves the sessions,
\* the store, the write history and every user's used_bytes and
\* uploads_today as they were; a rejected call made under a key without a
\* session leaves the key without a session; and a later call with the same
\* key that passes the checks creates the session with a media id of its
\* own and, when it succeeds, is charged as one upload.
Rejected(q) == q.op = "upload" /\ q.pc = "done" /\ q.result.error \in RejectionErrors

RejectionFrame ==
  \A r \in Reqs :
    (req'[r] # req[r] /\ Rejected(req'[r])) =>
      /\ UNCHANGED <<uploadSessions, chunkEntities, metaEntities, nextId,
                     uploaded, chunkWritten, chunkFailed, metaWritten>>
      /\ \A u \in Users : /\ usedBytes(userUsage', u) = usedBytes(userUsage, u)
                           /\ uploadsToday(userUsage', u) = uploadsToday(userUsage, u)

RejectedLeavesNothing ==
  \A r \in Reqs :
    Rejected(req[r]) =>
      /\ req[r].keyFresh => req[r].key \notin DOMAIN uploadSessions
      /\ ~req[r].fresh
      /\ usedBytes(userUsage, req[r].user) = req[r].usedBefore
      /\ uploadsToday(userUsage, req[r].user) = req[r].uploadsBefore

FreshAfterRejection ==
  \A r \in Reqs :
    (req[r].attempt = 2 /\ req[r].first.error \in RejectionErrors /\ PastLookup(r)) =>
      /\ req[r].fresh
      /\ uploadSessions[req[r].key].media_id = req[r].media_id
      /\ (req[r].pc = "done" /\ req[r].result.success) =>
           /\ req[r].result.media_id = req[r].media_id
           /\ uploadsToday(userUsage, req[r].user) = req[r].uploadsBefore + 1
           /\ usedBytes(userUsage, req[r].user) =
                req[r].usedBefore + Len(req[r].file.buf)

RejectedChangesNothing ==
  [](RejectedLeavesNothing /\ FreshAfterRejection) /\ [][RejectionFrame]_vars

\* C25 witness: a call refused for its content type was followed by a call
\* with the same key and an accepted file, which has succeeded
RejectedChangesNothingWitness ==
  \E r \in Reqs :
    /\ req[r].attempt = 2
    /\ req[r].first = Failure(ErrType)
    /\ req[r].pc = "done"
    /\ req[r].result = UploadSuccess(req[r].media_id)
    /\ req[r].fresh

\* C26: checkQuota is read-only.  For every user and size, a call of
\* checkQuota leaves the record of every user the ledger held as it was
\* (used_bytes, max_bytes, uploads_today, max_uploads_per_day); for a user
\* the ledger did not hold its only effect is the zeroed record with the
\* free-tier caps; and the same call made again in the state the first one
\* left gives the same decision and changes nothing.
CheckQuotaReadOnly ==
  /\ qpc \in {"checked", "checked_twice"} =>
       /\ DOMAIN userUsage = DOMAIN qusage \cup {quser}
       /\ \A u \in DOMAIN qusage : userUsage[u] = qusage[u]
       /\ quser \notin DOMAIN qusage => userUsage[quser] = FreshQuota
  /\ qpc = "checked_twice" =>
       /\ qres2 = qres
       /\ userUsage = qusage2

\* C26 witness: a user the ledger did not hold was checked twice and
\* admitted twice, the ledger holding another user's usage
CheckQuotaReadOnlyWitness ==
  /\ qpc = "checked_twice"
  /\ quser \notin DOMAIN qusage
  /\ \E u \in DOMAIN qusage : qusage[u].used_bytes = 3
  /\ qres.allowed
  /\ qres2.allowed

\* C27: reassembly is order-independent.  For every list of chunks with
\* pairwise distinct chunk_index values, reassembleFile returns the payloads
\* of the set of its chunks concatenated in ascending index order, whatever
\* the order of the list; a gap in the indices is not detected: the result
\* is that concatenation all the same.
RECURSIVE inIndexOrder(_)
inIndexOrder(chunks) ==
  IF chunks = {} THEN <<>>
  ELSE LET c == CHOOSE x \in chunks : \A y \in chunks : x.chunk_index <= y.chunk_index
       IN  c.data \o inIndexOrder(chunks \ {c})

OrderIndependent ==
  cpc = "reassembled" =>
    cout = inIndexOrder({cchunks[i] : i \in 1..Len(cchunks)})

\* C27 witness: three chunks with indices 3, 0, 1 (in that order, index 2
\* missing) were reassembled
OrderIndependentWitness ==
  /\ cpc = "reassembled"
  /\ Len(cchunks) = 3
  /\ cchunks[1].chunk_index = 3 /\ cchunks[1].data = <<1>>
  /\ cchunks[2].chunk_index = 0 /\ cchunks[2].data = <<0, 1>>
  /\ cchunks[3].chunk_index = 1 /\ cchunks[3].data = <<0>>
  /\ cout = <<0, 1, 0, 1>>

\* C28: chunking is deterministic.  Any two runs of chunkFile on the same
\* buffer, whatever the time, the ids drawn and the media id, yield
\* sequences of the same length that agree position by position in
\* chunk_index, bytes and checksum; and createMetadata on the same buffer
\* yields the same file_size, chunk_count and whole-file checksum.
SameChunking(a, b) ==
  /\ Len(a.chunks) = Len(b.chunks)
  /\ \A i \in 1..Len(a.chunks) :
       /\ a.chunks[i].chunk_index = b.chunks[i].chunk_index
       /\ a.chunks[i].data = b.chunks[i].data
       /\ a.chunks[i].checksum = b.chunks[i].checksum
  /\ a.metadata.file_size = b.metadata.file_size
  /\ a.metadata.chunk_count = b.metadata.chunk_count
  /\ a.metadata.checksum = b.metadata.checksum

ChunkingDeterministic ==
  \A i, j \in 1..Len(prun) : SameChunking(prun[i], prun[j])

\* C28 witness: a three-byte buffer was chunked twice, at different times,
\* with different ids and for different media ids
ChunkingDeterministicWitness ==
  /\ Len(prun) = 2
  /\ Len(pbuf) = 3
  /\ Len(prun[1].chunks) = 2
  /\ prun[1].at # prun[2].at
  /\ prun[1].chunks[1].id # prun[2].chunks[1].id
  /\ prun[1].metadata.media_id # prun[2].metadata.media_id

\* C29: shared expiry.  Every chunk record handed to the store for an upload
\* carries the expiration_block of the upload's metadata record, which is
\* the value computed once from btlDays when the upload was prepared, before
\* the first chunk was handed over, however much time passes between the
\* writes.
SharedExpiry ==
  /\ pwritten # <<>> => Len(prun) = 1
  /\ \A n \in 1..Len(prun) :
       /\ prun[n].expiration_block = calculateExpirationBlock(prun[n].at, pbtl)
       /\ prun[n].metadata.expiration_block = prun[n].expiration_block
       /\ \A i \in 1..Len(prun[n].chunks) :
            prun[n].chunks[i].expiration_block = prun[n].expiration_block
  /\ \A i \in 1..Len(pwritten) :
       pwritten[i].expiration_block = prun[1].metadata.expiration_block

\* C29 witness: two chunks and the metadata were handed over, the clock
\* having moved on since the expiration block was computed
SharedExpiryWitness ==
  /\ ppc = "stored"
  /\ Len(pwritten) = 3
  /\ pbtl = 7
  /\ prun[1].at = 0
  /\ pnow = 2
  /\ pwritten[3].expiration_block = 14

(* ------------------------------------------------------------------ *)
(* C30: getAllChunks is all-or-nothing in the in-memory and the RPC    *)
(* store: whatever the store holds, a finished call returned either    *)
(* the empty list or exactly metadata.chunk_count chunks, with indices *)
(* 0..chunk_count-1 in ascending order and none of them expired, and   *)
(* never anything without unexpired metadata.                          *)
(* ------------------------------------------------------------------ *)
WholeMedia(read) ==
  /\ read.meta # NoStoredMeta
  /\ Len(read.chunks) = read.meta.chunk_count
  /\ \A i \in 1..Len(read.chunks) :
       /\ read.chunks[i].media_id = read.media_id
       /\ read.chunks[i].chunk_index = i - 1
       /\ read.chunks[i].expiration_block > read.block0

AllOrNothing ==
  rread.pc = "done" => (rread.chunks = <<>> \/ WholeMedia(rread))

(* ------------------------------------------------------------------ *)
(* C31: expiry in the in-memory store is inclusive and permanent.      *)
(* getMedia succeeds only for a media whose expiration_block is        *)
(* strictly greater than the current block; a getMedia of a media      *)
(* whose expiration_block the current block has reached answers        *)
(* NotFound and leaves no metadata record of it; and once a media was  *)
(* seen expired its metadata stays absent and every later getMedia of  *)
(* it answers NotFound.                                                *)
(* ------------------------------------------------------------------ *)
ExpiredAt(media_id) ==
  media_id \in DOMAIN rhist /\ rhist[media_id].expiration_block <= rblock

GetFinished == rread.pc = "done"

ServedOnlyUnexpired ==
  (GetFinished /\ rread.result.success) =>
     /\ rread.result.metadata.expiration_block > rblock
     /\ ~ExpiredAt(rread.media_id)

GoneStaysGone ==
  /\ \A m \in DOMAIN rhist : rhist[m].gone => m \notin DOMAIN rmeta
  /\ (GetFinished /\ rread.wasGone) => rread.result = Failure(ErrNotFound)

ExpiredAnswer ==
  (rread' # rread /\ rread'.pc = "done" /\ ExpiredAt(rread'.media_id)) =>
     /\ rread'.result = Failure(ErrNotFound)
     /\ rread'.media_id \notin DOMAIN rmeta'

ExpiryPermanent ==
  /\ [](ServedOnlyUnexpired /\ GoneStaysGone)
  /\ [][ExpiredAnswer]_vars

\* a media uploaded for zero days, so that it expires at the current
\* block, was asked for twice after its metadata was stored
ExpiryPermanentWitness ==
  /\ GetFinished
  /\ rread.media_id \in DOMAIN rhist
  /\ rhist[rread.media_id].expiration_block = rblock
  /\ rhist[rread.media_id].stored
  /\ rread.wasGone
  /\ rread.result = Failure(ErrNotFound)

(* ------------------------------------------------------------------ *)
(* C32: a POST /media request without an Idempotency-Key header gets a *)
(* key that matches no session: when it is answered 200 it made a new  *)
(* upload and its user was charged one upload and the bytes of the     *)
(* file, and two such requests never get the same media_id, the same   *)
(* user and file included.                                             *)
(* ------------------------------------------------------------------ *)
DefaultKeyUpload(i) == served[i].headerless /\ served[i].response.status = 200

DefaultKeyIndependent ==
  /\ \A i \in DOMAIN served :
       DefaultKeyUpload(i) =>
         /\ served[i].fresh
         /\ served[i].response.media_id \in DOMAIN uploaded
         /\ uploaded[served[i].response.media_id].key = served[i].key
         /\ served[i].uploadsAfter = served[i].uploadsBefore + 1
         /\ served[i].usedAfter = served[i].usedBefore + Len(served[i].file.buf)
  /\ \A i, j \in DOMAIN served :
       (i < j /\ DefaultKeyUpload(i) /\ DefaultKeyUpload(j)) =>
         served[i].response.media_id # served[j].response.media_id

\* the same user sent the same file twice without a header and was
\* charged for two uploads
DefaultKeyIndependentWitness ==
  /\ Len(served) = 2
  /\ DefaultKeyUpload(1)
  /\ DefaultKeyUpload(2)
  /\ served[1].user = served[2].user
  /\ served[1].file = served[2].file
  /\ served[1].response.media_id # served[2].response.media_id
  /\ uploadsToday(userUsage, served[1].user) = 2
  /\ usedBytes(userUsage, served[1].user) = 2 * Len(served[1].file.buf)

(* ------------------------------------------------------------------ *)
(* C36: GET /quota reflects committed usage: with no request in        *)
(* flight, the used_bytes and uploads_today it reports for a user are  *)
(* those of the ledger initiateUpload charges, so that after a         *)
(* successful POST /media of L bytes they are L and 1 higher.          *)
(* ------------------------------------------------------------------ *)
QuotaAnswered ==
  /\ http.kind = "quota"
  /\ http.answered = Len(served)
  /\ NoneInFlight

QuotaRouteReflects ==
  QuotaAnswered =>
    /\ http.response.used_bytes = usedBytes(userUsage, http.user)
    /\ http.response.uploads_today = uploadsToday(userUsage, http.user)

(* ------------------------------------------------------------------ *)
(* C33: fresh success implies durable.  When a call of initiateUpload  *)
(* that created a new session has returned success with media_id m,    *)
(* the store has acknowledged the write of the metadata of m and of    *)
(* each chunk 0..chunk_count-1 of m, the session of the key is         *)
(* completed and is the session of m, and the ledger of the user       *)
(* counts m among the uploads it was charged for.                      *)
(* ------------------------------------------------------------------ *)
FreshSuccess(r) == UploadDone(r) /\ req[r].fresh /\ req[r].result.success

FreshSuccessDurable ==
  \A r \in Reqs :
    FreshSuccess(r) =>
      LET m == req[r].result.media_id
          u == req[r].user
      IN  /\ m = req[r].media_id
          /\ m \in metaWritten
          /\ \A i \in 0..(req[r].metadata.chunk_count - 1) : <<m, i>> \in chunkWritten
          /\ req[r].key \in DOMAIN uploadSessions
          /\ uploadSessions[req[r].key].media_id = m
          /\ uploadSessions[req[r].key].completed
          /\ m \in completedSessions(u)
          /\ uploadsToday(userUsage, u) = Cardinality(completedSessions(u))
          /\ usedBytes(userUsage, u) = sumBytes(completedSessions(u))

\* a fresh upload of two chunks has returned success while another upload
\* of the same user is writing its chunks
FreshSuccessDurableWitness ==
  \E r, q \in Reqs :
    /\ FreshSuccess(r)
    /\ req[r].metadata.chunk_count = 2
    /\ req[q].op = "upload" /\ req[q].pc = "store_chunk"
    /\ req[q].user = req[r].user

(* ------------------------------------------------------------------ *)
(* C34: empty upload.  initiateUpload of a buffer of no bytes with an  *)
(* allowed content type and quota left creates an upload of            *)
(* chunk_count 0; unless the store rejects the metadata write it       *)
(* returns success, with no chunk written, one metadata record         *)
(* written and the session completed, and the step that completes it   *)
(* raises uploads_today by 1 and used_bytes by 0.  getMedia of the     *)
(* media_id never succeeds, and it fails with the                      *)
(* chunks-not-found-or-incomplete error whenever the store has kept    *)
(* the metadata and answers the reads.                                 *)
(* ------------------------------------------------------------------ *)
EmptyCall(r) ==
  /\ req[r].op = "upload"
  /\ req[r].file.buf = <<>>
  /\ isValidImageType(req[r].file.ctype)

EmptyMedia(m) == m \in DOMAIN uploaded /\ uploaded[m].buf = <<>>

EmptyUploadState ==
  /\ \A r \in Reqs :
       (EmptyCall(r) /\ req[r].pc = "done" /\ req[r].quotaCheck.allowed
          /\ req[r].fresh) =>
         /\ req[r].metadata.chunk_count = 0
         /\ req[r].chunks = <<>>
         /\ req[r].result.success \/ req[r].result.error = ErrUpload
         /\ req[r].result.success =>
              /\ req[r].media_id \in metaWritten
              /\ uploadSessions[req[r].key].completed
              /\ uploadSessions[req[r].key].chunks_received = {}
  /\ \A m \in DOMAIN uploaded :
       EmptyMedia(m) =>
         /\ \A w \in chunkWritten : w[1] # m
         /\ \A e \in chunkEntities : e.media_id # m
         /\ Cardinality({e \in metaEntities : e.media_id = m}) <= 1
  /\ \A r \in Reqs :
       (GetDone(r) /\ EmptyMedia(req[r].media_id)) =>
         /\ ~req[r].result.success
         /\ req[r].result.error \in {ErrIncomplete, ErrNotFound, ErrRetrieval}
         /\ (req[r].media_id \in metaWritten /\ faults = 0 /\ ~req[r].readFailed)
              => req[r].result.error = ErrIncomplete

EmptyUploadCharge ==
  \A r \in Reqs :
    (EmptyCall(r) /\ req[r].pc = "store_meta" /\ req'[r].pc = "await_usage") =>
      /\ uploadsToday(userUsage', req[r].user) = uploadsToday(userUsage, req[r].user) + 1
      /\ usedBytes(userUsage', req[r].user) = usedBytes(userUsage, req[r].user)
      /\ Cardinality({e \in metaEntities' : e.media_id = req[r].media_id}) = 1

EmptyUpload == []EmptyUploadState /\ [][EmptyUploadCharge]_vars

\* an empty upload went through and the getMedia of its id failed as
\* incomplete, the user charged for one upload of no bytes
EmptyUploadWitness ==
  \E r \in Reqs :
    /\ GetDone(r)
    /\ EmptyMedia(req[r].media_id)
    /\ req[r].media_id \in metaWritten
    /\ req[r].result.error = ErrIncomplete
    /\ faults = 0
    /\ uploadsToday(userUsage, uploaded[req[r].media_id].user) = 1
    /\ usedBytes(userUsage, uploaded[req[r].media_id].user) = 0

(* ------------------------------------------------------------------ *)
(* C35: session lookup is by key alone.  A call of initiateUpload that *)
(* passed validation and quota under a key that already had a session  *)
(* returns the media_id of that session, whatever its buffer, content  *)
(* type and user; the step that answers it writes nothing to the       *)
(* store, leaves every session and the upload history as they were,    *)
(* and charges no one.                                                 *)
(* ------------------------------------------------------------------ *)
KeyAloneAnswer ==
  \A r \in Reqs :
    (UploadDone(r) /\ ~req[r].keyFresh /\ req[r].quotaCheck.allowed) =>
      /\ req[r].result.success
      /\ ~req[r].fresh
      /\ req[r].result.media_id = uploadSessions[req[r].key].media_id
      /\ req[r].result.media_id \in DOMAIN uploaded
      /\ uploaded[req[r].result.media_id].key = req[r].key

KeyAloneStep ==
  \A r \in Reqs :
    (req[r].op = "upload" /\ req[r].pc = "await_quota" /\ req'[r].pc = "done"
       /\ req'[r].result.success) =>
      /\ UNCHANGED <<uploadSessions, chunkEntities, metaEntities, uploaded,
                     chunkWritten, metaWritten, nextId>>
      /\ \A u \in Users : /\ usedBytes(userUsage', u) = usedBytes(userUsage, u)
                           /\ uploadsToday(userUsage', u) = uploadsToday(userUsage, u)

KeyAloneLookup == []KeyAloneAnswer /\ [][KeyAloneStep]_vars

\* a call with another file and another user was answered the media_id of
\* the session of its key, and its user has been charged nothing
KeyAloneLookupWitness ==
  \E r \in Reqs :
    /\ UploadDone(r) /\ req[r].result.success /\ ~req[r].fresh
    /\ uploaded[req[r].result.media_id].user # req[r].user
    /\ uploaded[req[r].result.media_id].buf # req[r].file.buf
    /\ usedBytes(userUsage, req[r].user) = 0
    /\ uploadsToday(userUsage, req[r].user) = 0

TargetBlocks == (0 - MaxTarget)..MaxTarget

\* block numbers the chain, or the clock of the fallback, may report
ChainBlocks == 0..MaxBlock

BlockDurations == 1..MaxDuration

Max(a, b) == IF a > b THEN a ELSE b

\* a TTL that is the distance to the target and nothing else
getExpiresInSeconds_noFloor(targetBlock, timing) ==
  LET target == Max(targetBlock, 0)
      deltaBlocks == Max(target - timing.currentBlock, 0)
  IN  deltaBlocks * timing.blockDuration

\* lines 175-179
getExpiresInSeconds(targetBlock, timing) ==
  LET target == Max(targetBlock, 0)
      deltaBlocks == Max(target - timing.currentBlock, 0)
      expiresIn == deltaBlocks * timing.blockDuration
  IN  Max(expiresIn, timing.blockDuration)

InitTtl ==
  /\ chunkSize = CHUNK_SIZE
  /\ storageImpl = "v2"
  /\ InitService
  /\ InitCodecIdle
  /\ InitQuotaIdle
  /\ InitStoreIdle
  /\ InitRouteIdle
  /\ InitPrepIdle
  /\ InitReadIdle
  /\ InitTtlIdle

ttlFrame ==
  /\ UNCHANGED <<chunkSize>>
  /\ UNCHANGED sysVars
  /\ UNCHANGED codecVars
  /\ UNCHANGED quotaVars
  /\ UNCHANGED storeVars
  /\ UNCHANGED routeVars
  /\ UNCHANGED prepVars
  /\ UNCHANGED readVars

\* lines 173-174: the call, up to its await of getBlockTiming
GetExpiresCall(targetBlock) ==
  /\ ttl.pc \in {"idle", "returned"}
  /\ ttl' = [NoTtl EXCEPT !.pc = "await_timing", !.targetBlock = targetBlock]
  /\ UNCHANGED blockTimingCache
  /\ ttlFrame

\* lines 149-152: a cache younger than five seconds is answered as it is
BlockTimingCached ==
  /\ ttl.pc = "await_timing"
  /\ blockTimingCache.cached
  /\ ttl' = [ttl EXCEPT !.pc = "timed", !.timing = blockTimingCache]
  /\ UNCHANGED blockTimingCache
  /\ ttlFrame

\* lines 154-160: the chain is asked and its answer cached
BlockTimingFetched(block, duration) ==
  /\ ttl.pc = "await_timing"
  /\ blockTimingCache' = [currentBlock |-> block, blockDuration |-> duration,
                          cached |-> TRUE]
  /\ ttl' = [ttl EXCEPT !.pc = "timed", !.timing = blockTimingCache']
  /\ ttlFrame

\* lines 161-167: the chain did not answer; the block is estimated from the clock
BlockTimingFallback(block) ==
  /\ ttl.pc = "await_timing"
  /\ blockTimingCache' = [currentBlock |-> block,
                          blockDuration |-> BLOCK_TIME_SECONDS, cached |-> TRUE]
  /\ ttl' = [ttl EXCEPT !.pc = "timed", !.timing = blockTimingCache']
  /\ ttlFrame

\* lines 175-179
GetExpiresReturn ==
  /\ ttl.pc = "timed"
  /\ ttl' = [ttl EXCEPT !.pc = "returned",
                        !.expiresIn = getExpiresInSeconds(ttl.targetBlock, ttl.timing)]
  /\ UNCHANGED blockTimingCache
  /\ ttlFrame

NextTtl ==
  \/ \E t \in TargetBlocks : GetExpiresCall(t)
  \/ BlockTimingCached
  \/ \E b \in ChainBlocks, d \in BlockDurations : BlockTimingFetched(b, d)
  \/ \E b \in ChainBlocks : BlockTimingFallback(b)
  \/ GetExpiresReturn

SpecTtl == InitTtl /\ [][NextTtl]_vars

(* ------------------------------------------------------------------ *)
(* C38: the TTL handed to the store is always positive.  For every     *)
(* target expiration block, at or before the current block and         *)
(* negative ones included, and every positive blockDuration,           *)
(* getExpiresInSeconds returns                                         *)
(* max(targetBlock - currentBlock, 0) * blockDuration, and never less  *)
(* than one blockDuration.                                             *)
(* ------------------------------------------------------------------ *)
PositiveTtl ==
  ttl.pc = "returned" =>
    LET distance == Max(ttl.targetBlock - ttl.timing.currentBlock, 0)
                      * ttl.timing.blockDuration
    IN  /\ ttl.expiresIn = Max(distance, ttl.timing.blockDuration)
        /\ ttl.expiresIn >= ttl.timing.blockDuration
        /\ ttl.expiresIn > 0

\* a negative target block, behind the current block, got one blockDuration
PositiveTtlWitness ==
  /\ ttl.pc = "returned"
  /\ ttl.targetBlock < 0
  /\ ttl.timing.currentBlock > 0
  /\ ttl.expiresIn = ttl.timing.blockDuration

====
